---- MODULE Spec2Model ----
(***************************************************************************)
(* Workflow execution engine: ExecutionService.executeWorkflow driving     *)
(* WorkflowOrchestrator.execute over the execution / node-execution        *)
(* journal.  A task is one asynchronous call chain; its stack holds one    *)
(* frame per executeWorkflow activation (the top-level execution and the   *)
(* sub-workflows invoked by workflow_executor nodes).                      *)
(***************************************************************************)
EXTENDS Integers, Sequences, FiniteSets, TLC

\* ------------------------------------------------------------------ bounds
MaxIter == 3        \* largest maxIterations a workflow of the model declares
MaxOut == 2         \* executors return a value of 1..MaxOut
MaxDepth == 2       \* nesting of workflows: the top-level one and its sub-workflows
MaxRuns == 2        \* executions started on one cached workflow object
MaxEdges == 2       \* edges of a workflow handed to createWorkflow
MaxLoop == 2        \* largest K of the counter loop (count < K)
MaxChunks == 2      \* chunks an executor hands to onChunk during one run
MaxTokens == 2      \* tokens (text or placeholder) of a template string
MaxNest == 1        \* nesting of arrays and mappings in a template
MaxValueTokens == 1 \* tokens of a string held by the context

\* --------------------------------------------------------------- constants
DefaultMaxIterations == 100
CreatedMaxIterations == 50

Null == 0           \* JavaScript null / undefined for outputs and results
NoError == <<>>     \* error column null
Keys == {"x", "y"}

\* ------------------------------------------------------------------ configs
NoConfigId == ""    \* configId / defaultConfigId absent
ConfigIds == {"c1", "c2"}
\* a config's variables, as one opaque mapping
EmptyConfig == "{}"
ConfigMappings == {"{k: 1}", "{k: 2}"}
Absent == "absent"  \* kv.get finds nothing under the id
NoConfigs == [c \in ConfigIds |-> Absent]
\* ConfigService.getConfigVariables(configId)
getConfigVariables(store, configId) ==
  IF configId = NoConfigId THEN EmptyConfig
  ELSE IF store[configId] = Absent THEN EmptyConfig
  ELSE store[configId]
\* configId || workflow.defaultConfigId || null
resolveConfigId(configId, workflow) ==
  IF configId # NoConfigId THEN configId ELSE workflow.defaultConfigId
DeclaredState == [k \in Keys |-> 0]

\* ---------------------------------------------------------- error messages
\* A message is a sequence of strings: the fixed text and its interpolations.
ErrStartNode(id) == <<"Start node does not exist in workflow", id>>
ErrEndNode(id) == <<"End node does not exist in workflow", id>>
ErrEdgeFrom(eid, id) == <<"Edge references non-existent 'from' node", eid, id>>
ErrEdgeTo(eid, id) == <<"Edge references non-existent 'to' node", eid, id>>
ErrOutgoing(id) == <<"Node has more than one outgoing edge", id>>
ErrNodeNotFound(id) == <<"Node not found during execution", id>>
ErrNoEdge(id) == <<"No outgoing edge found from node", id>>
ErrInvalidTarget(eid, r) == <<"Dynamic edge returned invalid node ID", eid, r>>
ErrDynamic(eid, inner) == <<"Failed to evaluate dynamic edge", eid>> \o inner
ErrNotString == <<"Dynamic edge rule must return a string (node ID)">>
ErrNoCondition == <<"Not even a single condition passed in Dynamic edge">>
ErrExceeded(n) == <<"Workflow execution exceeded maximum iterations", ToString(n)>>
ErrExecutorNotFound(type) == <<"Executor type not found", type>>
ErrExecutorRun == <<"executor run failed">>
ErrRule == <<"rule evaluation failed">>
ErrSetState(key, inner) == <<"Failed to execute setState for key", key>> \o inner
ErrNoWorkflowId == <<"workflow_executor node requires workflow_id in config">>
ErrWorkflowNotFound == <<"Workflow not found">>
ErrTimeout == <<"Execution timeout">>
ErrSubWorkflow(id, inner) == <<"Workflow execution failed for workflow_id", id>> \o inner

\* ---------------------------------------------------------------- workflows
\* node.streaming left out: enabled is not true, sendOnComplete is not false
NoStreaming == [enabled |-> FALSE, sendOnComplete |-> TRUE]
Node(id, type, wfid, ss) ==
  [id |-> id, type |-> type, workflow_id |-> wfid, setState |-> ss,
   streaming |-> NoStreaming]

NoRule == [lt |-> 0, then |-> "", else |-> ""]
StaticEdge(id, from, to) ==
  [id |-> id, from |-> from, kind |-> "static", to |-> to, rule |-> NoRule,
   conditions |-> <<>>]
\* A dynamic edge's rule: if state.x < lt then `then` else `else`; the result
\* "#number" stands for a value that is not a string.
DynamicEdge(id, from, lt, r1, r2) ==
  [id |-> id, from |-> from, kind |-> "dynamic", to |-> "",
   rule |-> [lt |-> lt, then |-> r1, else |-> r2], conditions |-> <<>>]
\* A dynamic edge in the conditions form: a list of [lt, node], the condition
\* of an entry being state.x < lt; the first entry whose condition holds
\* gives the node.
ConditionsEdge(id, from, conds) ==
  [id |-> id, from |-> from, kind |-> "conditions", to |-> "", rule |-> NoRule,
   conditions |-> conds]

Workflow(id, nodes, edges, start, end, mi) ==
  [id |-> id, nodes |-> nodes, edges |-> edges, startNode |-> start,
   endNode |-> end, maxIterations |-> mi, state |-> DeclaredState,
   defaultConfigId |-> NoConfigId]

SS_None == <<>>
SS_Inc == <<[key |-> "x", rule |-> "inc"]>>
SS_Out == <<[key |-> "y", rule |-> "out"]>>
SS_IncBad == <<[key |-> "x", rule |-> "inc"], [key |-> "y", rule |-> "bad"]>>

\* a node of a custom type: the executor repository may or may not hold it
Plain(id, ss) == Node(id, "custom_type", "", ss)
SubNode(id, wfid) == Node(id, "workflow_executor", wfid, SS_None)
\* a node configured to stream: streaming.enabled = true
StreamingNode(id, ss, sendOnComplete) ==
  [Plain(id, ss) EXCEPT !.streaming = [enabled |-> TRUE,
                                       sendOnComplete |-> sendOnComplete]]

\* Stored workflows a workflow_executor node can name.
\* s_ok: one node; s_loop: a self-loop that never reaches its end node;
\* s_rec: one node that invokes s_rec itself.
SubIds == {"s_ok", "s_loop", "s_rec"}
SubWorkflows ==
  [i \in SubIds |->
     IF i = "s_ok"
     THEN Workflow("s_ok", <<Plain("p", SS_None)>>, <<>>, "p", "p", MaxIter)
     ELSE IF i = "s_loop"
     THEN Workflow("s_loop", <<Plain("p", SS_None), Plain("q", SS_None)>>,
                   <<StaticEdge("l1", "p", "p")>>, "p", "q", 2)
     ELSE Workflow("s_rec", <<SubNode("p", "s_rec")>>, <<>>, "p", "p", MaxIter)]

EdgesFromA ==
  { <<>>, <<StaticEdge("e1", "a", "a")>>, <<StaticEdge("e1", "a", "b")>>,
    <<StaticEdge("e1", "a", "e")>>,
    <<DynamicEdge("e1", "a", 2, "a", "e")>>,
    <<DynamicEdge("e1", "a", 1, "b", "zz")>>,
    <<DynamicEdge("e1", "a", 1, "b", "#number")>> }
EdgesFromB ==
  { <<>>, <<StaticEdge("e2", "b", "a")>>, <<StaticEdge("e2", "b", "e")>> }

ABE(ssA, nodeB) == <<Plain("a", ssA), nodeB, Plain("e", SS_None)>>

\* Graph shapes over plain nodes a, b, e.
ShapeWorkflows ==
  { Workflow("main", ABE(SS_Inc, Plain("b", SS_Out)), ea \o eb, s, t, mi) :
      ea \in EdgesFromA, eb \in EdgesFromB, s \in {"a", "b", "e"},
      t \in {"e", "a"}, mi \in 1..MaxIter }

\* Node b invokes a sub-workflow (a stored one, an id that is not stored, or
\* no id at all).
SubCallWorkflows ==
  { Workflow("main", ABE(SS_Inc, SubNode("b", target)),
             <<StaticEdge("e1", "a", "b"), StaticEdge("e2", "b", "e")>>,
             s, "e", mi) :
      target \in SubIds \cup {"ghost", ""},
      s \in {"a", "b"}, mi \in 1..MaxIter }

\* Node a with each setState list, followed by the end node.
SetStateWorkflows ==
  { Workflow("main", ABE(ssA, Plain("b", SS_None)),
             <<StaticEdge("e1", "a", "e")>>, "a", "e", MaxIter) :
      ssA \in {SS_None, SS_Out, SS_IncBad} }

\* Node a (x := x + 1) with a dynamic edge in the conditions form: a loop
\* that ends, a node that is no string, no condition that holds, a string
\* that is no node id.
ConditionsWorkflows ==
  { Workflow("main", ABE(SS_Inc, Plain("b", SS_None)),
             <<ConditionsEdge("e1", "a", conds)>>, "a", "e", MaxIter) :
      conds \in { <<[lt |-> 2, node |-> "a"], [lt |-> 3, node |-> "e"]>>,
                  <<[lt |-> 2, node |-> "#number"]>>,
                  <<[lt |-> 1, node |-> "e"]>>,
                  <<[lt |-> 2, node |-> "zz"]>> } }

\* The counter loop: a (counter, x := x + 1) -> b (check); the dynamic edge
\* from b goes to a while state.x < K and to e (end) otherwise.
CounterLoopWorkflows ==
  { Workflow("main", ABE(SS_Inc, Plain("b", SS_None)),
             <<StaticEdge("e1", "a", "b"), DynamicEdge("e2", "b", K, "a", "e")>>,
             "a", "e", DefaultMaxIterations) : K \in 1..MaxLoop }

\* Node a streams its executor's chunks; its setState succeeds or throws and
\* its node_complete event is wanted or not.
StreamingNodeWorkflows ==
  { Workflow("main", <<StreamingNode("a", ss, soc), Plain("b", SS_None),
                       Plain("e", SS_None)>>,
             <<StaticEdge("e1", "a", "e")>>, "a", "e", MaxIter) :
      ss \in {SS_None, SS_IncBad}, soc \in BOOLEAN }

\* Workflows the validator rejects.
InvalidWorkflows ==
  { Workflow("main", ABE(SS_None, Plain("b", SS_None)), es, s, t, MaxIter) :
      <<es, s, t>> \in
        { <<<<StaticEdge("e1", "a", "e")>>, "zz", "e">>,
          <<<<StaticEdge("e1", "a", "e")>>, "a", "zz">>,
          <<<<StaticEdge("e1", "zz", "e")>>, "a", "e">>,
          <<<<StaticEdge("e1", "a", "zz")>>, "a", "e">>,
          <<<<StaticEdge("e1", "a", "b"), StaticEdge("e2", "a", "e")>>, "a", "e">> } }

MainWorkflows ==
  ShapeWorkflows \cup SubCallWorkflows \cup SetStateWorkflows
    \cup ConditionsWorkflows \cup CounterLoopWorkflows
    \cup StreamingNodeWorkflows \cup InvalidWorkflows

VARIABLES
  main,            \* the stored workflow the request names
  executions,      \* journal: execution records, id = index
  nodeExecutions,  \* journal: node-execution records, id = index
  objState,        \* workflow.state of every workflow object fetched so far
  tasks,           \* call chains: a stack of executeWorkflow frames each
  outcome,         \* per task: what orchestrator.execute returned or threw
  response,        \* per task: the record ExecutionService.executeWorkflow returned
  events,          \* the events delivered to the top-level sink, in order
  created,         \* the createWorkflow call: its dto and how it ended
  parser,          \* the TemplateParser call: template, context, results
  factory,         \* NodeExecutorFactory: its cache, the repositories, the last call
  journal,         \* an execution repository of either kind, and the last call on it
  configs          \* the KV namespace: the variables stored under config:<id>

vars == <<main, executions, nodeExecutions, objState, tasks, outcome, response,
          events, created, parser, factory, journal, configs>>
\* what the execution engine never writes
outside == <<created, parser, factory, journal, configs>>

\* ------------------------------------------------------------------ helpers
Last(s) == s[Len(s)]
Pop(s) == SubSeq(s, 1, Len(s) - 1)
ReplaceTop(s, f) == [s EXCEPT ![Len(s)] = f]
Min(S) == CHOOSE m \in S : \A o \in S : m <= o
Max(S) == CHOOSE m \in S : \A o \in S : m >= o

\* workflowRepo.findById / workflowService.getWorkflow
Stored(id) == id = "main" \/ id \in SubIds
GetWorkflow(id) == IF id = "main" THEN main ELSE SubWorkflows[id]

NodeIds(w) == { w.nodes[i].id : i \in DOMAIN w.nodes }
\* nodeMap.get(id): the last node of that id
NodeMapGet(w, id) ==
  w.nodes[Max({ i \in DOMAIN w.nodes : w.nodes[i].id = id })]
\* edgeMap: a later edge of the same `from` replaces an earlier one
EdgeMapHas(w, id) == \E i \in DOMAIN w.edges : w.edges[i].from = id
EdgeMapGet(w, id) ==
  w.edges[Max({ i \in DOMAIN w.edges : w.edges[i].from = id })]

MaxIterationsOf(w) ==
  IF w.maxIterations = 0 THEN DefaultMaxIterations ELSE w.maxIterations

\* variant: the count of outgoing edges looks at static edges only
OutgoingCount_StaticOnly(w, id) ==
  Cardinality({ i \in DOMAIN w.edges :
                  w.edges[i].from = id /\ w.edges[i].kind = "static" })
\* WorkflowService.validateWorkflow: the error it throws, NoError if none
BadEdge(w, i) ==
  \/ w.edges[i].from \notin NodeIds(w)
  \/ w.edges[i].kind = "static" /\ w.edges[i].to \notin NodeIds(w)
OutgoingCount(w, id) ==
  Cardinality({ i \in DOMAIN w.edges : w.edges[i].from = id })
validateWorkflow(w) ==
  IF w.startNode \notin NodeIds(w) THEN ErrStartNode(w.startNode)
  ELSE IF w.endNode \notin NodeIds(w) THEN ErrEndNode(w.endNode)
  ELSE IF \E i \in DOMAIN w.edges : BadEdge(w, i)
  THEN LET i == Min({ j \in DOMAIN w.edges : BadEdge(w, j) })
           e == w.edges[i]
       IN IF e.from \notin NodeIds(w) THEN ErrEdgeFrom(e.id, e.from)
          ELSE ErrEdgeTo(e.id, e.to)
  ELSE IF \E i \in DOMAIN w.edges : OutgoingCount(w, w.edges[i].from) > 1
  THEN LET i == Min({ j \in DOMAIN w.edges :
                        OutgoingCount(w, w.edges[j].from) > 1 })
       IN ErrOutgoing(w.edges[i].from)
  ELSE NoError

\* evaluateDynamicEdge: [err, node]; err = NoError when a node id is returned
\* rule form: the rule's result must be a string; conditions form: the node
\* of the first condition that holds is returned as it is
evaluateDynamicEdge(edge, state) ==
  LET result == IF state["x"] < edge.rule.lt THEN edge.rule.then
                ELSE edge.rule.else
      passing == { i \in DOMAIN edge.conditions :
                     state["x"] < edge.conditions[i].lt }
  IN IF edge.kind = "conditions"
     THEN IF passing = {}
          THEN [err |-> ErrDynamic(edge.id, ErrNoCondition), node |-> ""]
          ELSE [err |-> NoError, node |-> edge.conditions[Min(passing)].node]
     ELSE IF result = "#number"
     THEN [err |-> ErrDynamic(edge.id, ErrNotString), node |-> ""]
     ELSE [err |-> NoError, node |-> result]

\* One setState rule evaluated against the context: [err, val]
EvalRule(rule, key, state, output) ==
  IF rule = "inc" THEN [err |-> NoError, val |-> state[key] + 1]
  ELSE IF rule = "out" THEN [err |-> NoError, val |-> output]
  ELSE [err |-> ErrRule, val |-> Null]

\* variant: the rules' values are never assigned to state
executeSetState_Unassigned(rules, state, output) ==
  [err |-> NoError, state |-> state]
\* executeSetState: the rules applied in order to the live state, stopping at
\* the first rule that throws: [err, state]
RECURSIVE executeSetState(_, _, _)
executeSetState(rules, state, output) ==
  IF rules = <<>> THEN [err |-> NoError, state |-> state]
  ELSE LET r == EvalRule(Head(rules).rule, Head(rules).key, state, output)
       IN IF r.err # NoError
          THEN [err |-> ErrSetState(Head(rules).key, r.err), state |-> state]
          ELSE executeSetState(Tail(rules),
                               [state EXCEPT ![Head(rules).key] = r.val], output)

\* ------------------------------------------------------------------ journal
NewExecution(wfid, status, invoker) ==
  [workflowId |-> wfid, status |-> status, result |-> Null, error |-> NoError,
   completedAt |-> FALSE, writes |-> 0, invoker |-> invoker,
   config |-> EmptyConfig, configId |-> NoConfigId]
NewNodeExecution(exec, nodeId) ==
  [executionId |-> exec, nodeId |-> nodeId, status |-> "running",
   output |-> Null, error |-> NoError, completedAt |-> FALSE, writes |-> 0]
NoResponse == NewExecution("", "none", 0)

\* executionRepo.updateStatus(id, status)
UpdateStatus(execs, id, status) == [execs EXCEPT ![id].status = status]
\* variant: the completed update leaves the result out
UpdateCompleted_NoResult(execs, id, result) ==
  [execs EXCEPT ![id].status = "completed", ![id].completedAt = TRUE,
                ![id].writes = @ + 1]
\* executionRepo.update(id, {status: 'completed', result, completedAt})
UpdateCompleted(execs, id, result) ==
  [execs EXCEPT ![id].status = "completed", ![id].result = result,
                ![id].completedAt = TRUE, ![id].writes = @ + 1]
\* variant: the failure is recorded by updateStatus alone
UpdateFailed_StatusOnly(execs, id, msg) ==
  [execs EXCEPT ![id].status = "failed", ![id].writes = @ + 1]
\* executionRepo.update(id, {status: 'failed', error, completedAt})
UpdateFailed(execs, id, msg) ==
  [execs EXCEPT ![id].status = "failed", ![id].error = msg,
                ![id].completedAt = TRUE, ![id].writes = @ + 1]
\* nodeExecRepo.update(id, {status: 'completed', output, completedAt})
NodeUpdateCompleted(nes, id, output) ==
  [nes EXCEPT ![id].status = "completed", ![id].output = output,
              ![id].completedAt = TRUE, ![id].writes = @ + 1]
\* nodeExecRepo.update(id, {status: 'failed', error, completedAt})
NodeUpdateFailed(nes, id, msg) ==
  [nes EXCEPT ![id].status = "failed", ![id].error = msg,
              ![id].completedAt = TRUE, ![id].writes = @ + 1]

\* ------------------------------------------------------------------- frames
\* One frame per activation of executeWorkflow / runStreamingWorkflow.
\* pc: pending -> validate -> loop -> node -> (wait -> resume ->) loop ...
\*     -> return | throw -> done -> responded            (execute)
\*     start -> loop -> node -> (poll ->) loop ... -> return | throw -> done
\*                                                       (runStreamingWorkflow)
\* the input of a node before any node was entered
NoInput == [parent |-> <<>>, state |-> <<>>, config |-> EmptyConfig]
NewFrame(wfid, obj, exec, pc) ==
  [wf |-> wfid, obj |-> obj, exec |-> exec, pc |-> pc, cur |-> "",
   iterations |-> 0, nodeOutputs |-> <<>>, ne |-> 0, post |-> FALSE,
   err |-> NoError, ret |-> Null, sub |-> 0, input |-> NoInput, chunks |-> 0,
   workflowConfig |-> EmptyConfig,
   service |-> pc = "pending", streaming |-> FALSE, depth |-> 0, path |-> <<>>, parentExecutionId |-> 0]
\* the frame of runStreamingWorkflow under a StreamingContext
StreamFrame(wfid, obj, exec, depth, path, parentExec) ==
  [NewFrame(wfid, obj, exec, "start") EXCEPT
     !.service = FALSE, !.streaming = TRUE, !.depth = depth, !.path = path,
     !.parentExecutionId = parentExec]
\* call chains: streaming runs every nesting level as a chain of its own
TaskIds == 1..MaxDepth
Top(t) == Last(tasks[t])
SetTop(t, f) == tasks' = [tasks EXCEPT ![t] = ReplaceTop(@, f)]
Throw(f, msg) == [f EXCEPT !.pc = "throw", !.err = msg]
NoOutcome == [kind |-> "none", val |-> Null, err |-> NoError]
Idle == \A u \in TaskIds : tasks[u] = <<>>

\* ------------------------------------------------------------------- events
\* No sendEvent call puts parentExecutionId into its event: the field is
\* absent (0) from every event.
\* An event as the sink receives it, with two fields that are no part of the
\* payload: exec, the execution whose run sent it, and visit, the
\* node-execution it belongs to (0 for a workflow-level event).
WorkflowEvent(type, f) ==
  [type |-> type, executionId |-> f.exec, nodeId |-> "", depth |-> f.depth,
   path |-> f.path, parentExecutionId |-> 0,
   exec |-> f.exec, visit |-> 0]
NodeEvent(type, f) ==
  [type |-> type, executionId |-> 0, nodeId |-> f.cur, depth |-> f.depth,
   path |-> Append(f.path, f.cur), parentExecutionId |-> 0,
   exec |-> f.exec, visit |-> f.ne]
\* sendEvent when the frame streams; nothing otherwise
Emit(f, evs) == events' = IF f.streaming THEN events \o evs ELSE events

\* no TemplateParser call is part of the run
NoParse == [stage |-> "none"]
\* no NodeExecutorFactory call, no repository call
NoFactory == [op |-> "none"]
NoJournal == [op |-> "none"]
\* no createWorkflow call is part of the run
NoCreate == [dto |-> Workflow("", <<>>, <<>>, "", "", 0), status |-> "none",
             error |-> NoError]

Init ==
  /\ main \in MainWorkflows
  /\ executions = <<>>
  /\ nodeExecutions = <<>>
  /\ objState = <<>>
  /\ tasks = [t \in TaskIds |-> <<>>]
  /\ outcome = [t \in TaskIds |-> NoOutcome]
  /\ response = [t \in TaskIds |-> NoResponse]
  /\ events = <<>>
  /\ created = NoCreate
  /\ parser = NoParse
  /\ factory = NoFactory
  /\ journal = NoJournal
  /\ configs = NoConfigs

\* executionRepo.create({status: 'pending', config: configVariables, configId})
PendingExecution(configId) ==
  LET resolvedConfigId == resolveConfigId(configId, main)
  IN [NewExecution(main.id, "pending", 0) EXCEPT
        !.configId = resolvedConfigId,
        !.config = getConfigVariables(configs, resolvedConfigId)]
\* variant: a sub-execution starts without the config of its parent
subExecution_NoConfig(id, f) == NewExecution(id, "running", f.ne)
\* executionRepo.create({status: 'running', config: input.config || null})
subExecution(id, f) ==
  [NewExecution(id, "running", f.ne) EXCEPT !.config = f.input.config]

\* ExecutionService.executeWorkflow up to the creation of the pending record
ServiceExecuteWorkflow(t) ==
  /\ Idle
  /\ t = Min(TaskIds)
  /\ objState' = Append(objState, main.state)
  /\ \E configId \in ConfigIds \cup {NoConfigId} :
       LET execution == PendingExecution(configId)
       IN /\ executions' = Append(executions, execution)
          /\ tasks' = [tasks EXCEPT ![t] =
               <<[NewFrame(main.id, Len(objState) + 1, Len(executions) + 1,
                           "pending")
                    EXCEPT !.workflowConfig = execution.config]>>]
  /\ UNCHANGED <<main, outside, nodeExecutions, outcome, response, events>>

\* variant: the service enters execute without the running update
ServiceMarkRunning_Skipped(t) ==
  /\ tasks[t] # <<>>
  /\ Top(t).pc = "pending"
  /\ SetTop(t, [Top(t) EXCEPT !.pc = "validate"])
  /\ UNCHANGED <<main, outside, executions, nodeExecutions, objState, outcome, response,
                 events>>
\* ExecutionService.executeWorkflow: updateStatus(execution.id, 'running')
ServiceMarkRunning(t) ==
  /\ tasks[t] # <<>>
  /\ Top(t).pc = "pending"
  /\ executions' = UpdateStatus(executions, Top(t).exec, "running")
  /\ SetTop(t, [Top(t) EXCEPT !.pc = "validate"])
  /\ UNCHANGED <<main, outside, nodeExecutions, objState, outcome, response, events>>

\* A streaming request: the pending record is created, executeWithStreaming is
\* called without a StreamingContext, runStreamingWorkflow sends workflow_start
StreamRequest(t) ==
  \E configId \in ConfigIds \cup {NoConfigId} :
    LET execution == PendingExecution(configId)
        f == [StreamFrame(main.id, Len(objState) + 1, Len(executions) + 1,
                          0, <<>>, 0)
                EXCEPT !.workflowConfig = execution.config]
    IN /\ Idle
       /\ t = Min(TaskIds)
       /\ objState' = Append(objState, main.state)
       /\ executions' = Append(executions, execution)
       /\ tasks' = [tasks EXCEPT ![t] = <<f>>]
       /\ Emit(f, <<WorkflowEvent("workflow_start", f)>>)
       /\ UNCHANGED <<main, outside, nodeExecutions, outcome, response>>

\* runStreamingWorkflow: updateStatus(execution.id, 'running'), then the
\* traversal's set-up (this path does not call validateWorkflow)
StreamMarkRunning(t) ==
  LET f == Top(t)
  IN /\ tasks[t] # <<>>
     /\ f.pc = "start"
     /\ executions' = UpdateStatus(executions, f.exec, "running")
     /\ SetTop(t, [f EXCEPT !.pc = "loop", !.cur = GetWorkflow(f.wf).startNode])
     /\ UNCHANGED <<main, outside, nodeExecutions, objState, outcome, response, events>>

\* executeWorkflow: validateWorkflow, then the traversal's set-up
Validate(t) ==
  LET f == Top(t)
      w == GetWorkflow(f.wf)
      e == validateWorkflow(w)
  IN /\ tasks[t] # <<>>
     /\ f.pc = "validate"
     /\ SetTop(t, IF e # NoError THEN Throw(f, e)
                  ELSE [f EXCEPT !.pc = "loop", !.cur = w.startNode])
     /\ UNCHANGED <<main, outside, executions, nodeExecutions, objState, outcome,
                    response, events>>

\* variant: the loop's budget test is off by one
LoopCondition_OffByOne(f, w) ==
  f.cur # w.endNode /\ f.iterations <= MaxIterationsOf(w)
\* variant: the loop does not stop at the end node
LoopCondition_IgnoresEnd(f, w) ==
  f.iterations < MaxIterationsOf(w)
\* while (currentNodeId !== workflow.endNode && iterations < maxIterations)
LoopCondition(f, w) ==
  f.cur # w.endNode /\ f.iterations < MaxIterationsOf(w)

\* executeNode: node_start when streaming, nodeExecRepo.create({status: 'running'}),
\* the node's input built from nodeOutputs and state
EnterNode(t, f, post) ==
  LET g == [f EXCEPT !.pc = "node", !.ne = Len(nodeExecutions) + 1,
                     !.post = post, !.chunks = 0,
                     !.input = [parent |-> f.nodeOutputs,
                                state |-> objState[f.obj],
                                config |-> f.workflowConfig]]
  IN /\ Emit(g, <<NodeEvent("node_start", g)>>)
     /\ nodeExecutions' = Append(nodeExecutions, NewNodeExecution(f.exec, f.cur))
     /\ SetTop(t, g)

\* the while loop's condition holds: one more iteration begins
LoopIteration(t) ==
  LET f == Top(t)
      w == GetWorkflow(f.wf)
      g == [f EXCEPT !.iterations = @ + 1]
  IN /\ tasks[t] # <<>>
     /\ f.pc = "loop"
     /\ LoopCondition(f, w)
     /\ IF f.cur \notin NodeIds(w)
        THEN /\ SetTop(t, Throw(g, ErrNodeNotFound(f.cur)))
             /\ UNCHANGED <<nodeExecutions, events>>
        ELSE EnterNode(t, g, FALSE)
     /\ UNCHANGED <<main, outside, executions, objState, outcome, response>>

\* the loop is left with the iteration budget used up
IterationLimit(t) ==
  LET f == Top(t)
      w == GetWorkflow(f.wf)
  IN /\ tasks[t] # <<>>
     /\ f.pc = "loop"
     /\ ~LoopCondition(f, w)
     /\ f.iterations >= MaxIterationsOf(w)
     /\ SetTop(t, Throw(f, ErrExceeded(MaxIterationsOf(w))))
     /\ UNCHANGED <<main, outside, executions, nodeExecutions, objState, outcome,
                    response, events>>

\* the loop is left at the end node: it is executed unless it has an output
EndNodeReconciliation(t) ==
  LET f == Top(t)
      w == GetWorkflow(f.wf)
  IN /\ tasks[t] # <<>>
     /\ f.pc = "loop"
     /\ ~LoopCondition(f, w)
     /\ f.iterations < MaxIterationsOf(w)
     /\ IF f.cur = w.endNode /\ f.cur \notin DOMAIN f.nodeOutputs
           /\ f.cur \in NodeIds(w)
        THEN EnterNode(t, f, TRUE)
        ELSE /\ SetTop(t, [f EXCEPT !.pc = "return",
                             !.ret = IF w.endNode \in DOMAIN f.nodeOutputs
                                     THEN f.nodeOutputs[w.endNode] ELSE Null])
             /\ UNCHANGED <<nodeExecutions, events>>
     /\ UNCHANGED <<main, outside, executions, objState, outcome, response>>

\* variant: the value a dynamic edge returned is not looked up in nodeMap
TargetExists_Unchecked(w, edge, node) == TRUE
\* variant: only the result of a rule-form edge is looked up in nodeMap
TargetExists_TrustsConditions(w, edge, node) ==
  edge.kind = "conditions" \/ node \in NodeIds(w)
\* nodeMap.has(nextNodeId) for the value a dynamic edge returned
TargetExists(w, edge, node) == node \in NodeIds(w)

\* variant: a revisit does not overwrite the node's earlier output
AfterNode_KeepsFirst(f, w, output, state) ==
  LET outs == f.nodeOutputs @@ (f.cur :> output)
      g == [f EXCEPT !.nodeOutputs = outs, !.pc = "loop"]
  IN IF f.post THEN [g EXCEPT !.pc = "return", !.ret = outs[w.endNode]]
     ELSE IF f.cur = w.endNode THEN g
     ELSE IF ~EdgeMapHas(w, f.cur) THEN Throw(g, ErrNoEdge(f.cur))
     ELSE LET edge == EdgeMapGet(w, f.cur)
          IN IF edge.kind = "static" THEN [g EXCEPT !.cur = edge.to]
             ELSE LET r == evaluateDynamicEdge(edge, state)
                  IN IF r.err # NoError THEN Throw(g, r.err)
                     ELSE IF ~TargetExists(w, edge, r.node)
                     THEN Throw(g, ErrInvalidTarget(edge.id, r.node))
                     ELSE [g EXCEPT !.cur = r.node]

\* the traversal after executeNode returned `output`: nodeOutputs.set, the
\* end-node test and the outgoing edge
AfterNode(f, w, output, state) ==
  LET outs == (f.cur :> output) @@ f.nodeOutputs
      g == [f EXCEPT !.nodeOutputs = outs, !.pc = "loop"]
  IN IF f.post THEN [g EXCEPT !.pc = "return", !.ret = outs[w.endNode]]
     ELSE IF f.cur = w.endNode THEN g
     ELSE IF ~EdgeMapHas(w, f.cur) THEN Throw(g, ErrNoEdge(f.cur))
     ELSE LET edge == EdgeMapGet(w, f.cur)
          IN IF edge.kind = "static" THEN [g EXCEPT !.cur = edge.to]
             ELSE LET r == evaluateDynamicEdge(edge, state)
                  IN IF r.err # NoError THEN Throw(g, r.err)
                     ELSE IF ~TargetExists(w, edge, r.node)
                     THEN Throw(g, ErrInvalidTarget(edge.id, r.node))
                     ELSE [g EXCEPT !.cur = r.node]

\* variant: the catch block rethrows without the failed update
NodeCatch_NoUpdate(t, f, msg, evs) ==
  /\ UNCHANGED nodeExecutions
  /\ Emit(f, evs \o <<NodeEvent("error", f)>>)
  /\ SetTop(t, Throw(f, msg))
\* executeNode's catch block: the node-execution is failed, an error event
\* is sent when streaming, the error is rethrown
NodeCatch(t, f, msg, evs) ==
  /\ nodeExecutions' = NodeUpdateFailed(nodeExecutions, f.ne, msg)
  /\ Emit(f, evs \o <<NodeEvent("error", f)>>)
  /\ SetTop(t, Throw(f, msg))

NodeFails(t, f, msg) == NodeCatch(t, f, msg, <<>>)

\* variant: node_complete is sent before setState runs
NodeCompletes_CompleteFirst(t, f, output) ==
  LET w == GetWorkflow(f.wf)
      rules == NodeMapGet(w, f.cur).setState
      ss == executeSetState(rules, objState[f.obj], output)
  IN /\ objState' = [objState EXCEPT ![f.obj] = ss.state]
     /\ IF ss.err # NoError
        THEN NodeCatch(t, f, ss.err, <<NodeEvent("node_complete", f)>>)
        ELSE /\ nodeExecutions' = NodeUpdateCompleted(nodeExecutions, f.ne, output)
             /\ Emit(f, <<NodeEvent("node_complete", f)>>)
             /\ SetTop(t, AfterNode(f, w, output, ss.state))
\* variant: the outgoing edge is evaluated on the state before setState
NodeCompletes_EdgeOnOldState(t, f, output) ==
  LET w == GetWorkflow(f.wf)
      rules == NodeMapGet(w, f.cur).setState
      ss == executeSetState(rules, objState[f.obj], output)
  IN /\ objState' = [objState EXCEPT ![f.obj] = ss.state]
     /\ IF ss.err # NoError THEN NodeFails(t, f, ss.err)
        ELSE /\ nodeExecutions' = NodeUpdateCompleted(nodeExecutions, f.ne, output)
             /\ Emit(f, (IF rules # SS_None
                         THEN <<NodeEvent("state_updated", f)>> ELSE <<>>)
                        \o (IF NodeMapGet(w, f.cur).streaming.sendOnComplete
                            THEN <<NodeEvent("node_complete", f)>> ELSE <<>>))
             /\ SetTop(t, AfterNode(f, w, output, objState[f.obj]))
\* executeNode once the node's output is known: setState, then the completed
\* update, then back in the traversal
NodeCompletes(t, f, output) ==
  LET w == GetWorkflow(f.wf)
      rules == NodeMapGet(w, f.cur).setState
      ss == executeSetState(rules, objState[f.obj], output)
  IN /\ objState' = [objState EXCEPT ![f.obj] = ss.state]
     /\ IF ss.err # NoError THEN NodeFails(t, f, ss.err)
        ELSE /\ nodeExecutions' = NodeUpdateCompleted(nodeExecutions, f.ne, output)
             /\ Emit(f, (IF rules # SS_None
                         THEN <<NodeEvent("state_updated", f)>> ELSE <<>>)
                        \o (IF NodeMapGet(w, f.cur).streaming.sendOnComplete
                            THEN <<NodeEvent("node_complete", f)>> ELSE <<>>))
             /\ SetTop(t, AfterNode(f, w, output, ss.state))

IsBuiltinNode(t) ==
  /\ tasks[t] # <<>>
  /\ Top(t).pc = "node"
  /\ NodeMapGet(GetWorkflow(Top(t).wf), Top(t).cur).type # "workflow_executor"

\* nodeFactory.getExecutor throws: the node's type resolves to no executor
ExecutorLookupFails(t) ==
  LET f == Top(t)
  IN /\ IsBuiltinNode(t)
     /\ NodeFails(t, f, ErrExecutorNotFound(NodeMapGet(GetWorkflow(f.wf), f.cur).type))
     /\ UNCHANGED <<main, outside, executions, objState, outcome, response>>

\* executor.run throws
ExecutorRunFails(t) ==
  LET f == Top(t)
  IN /\ IsBuiltinNode(t)
     /\ NodeFails(t, f, ErrExecutorRun)
     /\ UNCHANGED <<main, outside, executions, objState, outcome, response>>

\* executor.run of a node configured to stream calls onChunk: a node_chunk event
ExecutorChunk(t) ==
  LET f == Top(t)
  IN /\ IsBuiltinNode(t)
     /\ f.streaming
     /\ NodeMapGet(GetWorkflow(f.wf), f.cur).streaming.enabled
     /\ f.chunks < MaxChunks
     /\ Emit(f, <<NodeEvent("node_chunk", f)>>)
     /\ SetTop(t, [f EXCEPT !.chunks = @ + 1])
     /\ UNCHANGED <<main, outside, executions, nodeExecutions, objState, outcome,
                    response>>

\* executor.run returns v
ExecutorReturns(t, v) ==
  LET f == Top(t)
  IN /\ IsBuiltinNode(t)
     /\ NodeCompletes(t, f, v)
     /\ UNCHANGED <<main, outside, executions, outcome, response>>

IsWorkflowNode(t) ==
  /\ tasks[t] # <<>>
  /\ Top(t).pc = "node"
  /\ NodeMapGet(GetWorkflow(Top(t).wf), Top(t).cur).type = "workflow_executor"

\* executeWorkflowNode throws before a sub-execution exists
SubWorkflowLookupFails(t) ==
  LET f == Top(t)
      id == NodeMapGet(GetWorkflow(f.wf), f.cur).workflow_id
  IN /\ IsWorkflowNode(t)
     /\ ~Stored(id)
     /\ NodeFails(t, f, IF id = "" THEN ErrNoWorkflowId ELSE ErrWorkflowNotFound)
     /\ UNCHANGED <<main, outside, executions, objState, outcome, response>>

\* executeWorkflowNode without streaming: the sub-execution is created
\* running and executeWorkflow is entered for it
CallSubWorkflow(t) ==
  LET f == Top(t)
      id == NodeMapGet(GetWorkflow(f.wf), f.cur).workflow_id
      sub == Len(executions) + 1
  IN /\ IsWorkflowNode(t)
     /\ ~f.streaming
     /\ Stored(id)
     /\ Len(tasks[t]) < MaxDepth
     /\ objState' = Append(objState, GetWorkflow(id).state)
     /\ executions' = Append(executions, subExecution(id, f))
     /\ tasks' = [tasks EXCEPT ![t] =
          Append(ReplaceTop(@, [f EXCEPT !.pc = "wait", !.sub = sub]),
                 [NewFrame(id, Len(objState) + 1, sub, "validate")
                    EXCEPT !.workflowConfig = f.input.config])]
     /\ UNCHANGED <<main, outside, nodeExecutions, outcome, response, events>>

\* executeWorkflowNode when streaming: the sub-execution is created running,
\* executeWithStreaming starts runStreamingWorkflow for it (workflow_start is
\* sent) and the node waits in waitForCompletion
StreamSubWorkflow(t, u) ==
  LET f == Top(t)
      id == NodeMapGet(GetWorkflow(f.wf), f.cur).workflow_id
      sub == Len(executions) + 1
      g == [StreamFrame(id, Len(objState) + 1, sub, f.depth + 1,
                        Append(f.path, f.cur), f.exec)
              EXCEPT !.workflowConfig = subExecution(id, f).config]
  IN /\ IsWorkflowNode(t)
     /\ f.streaming
     /\ Stored(id)
     /\ f.depth + 1 < MaxDepth
     /\ tasks[u] = <<>>
     /\ u = Min({ v \in TaskIds : tasks[v] = <<>> })
     /\ objState' = Append(objState, GetWorkflow(id).state)
     /\ executions' = Append(executions, subExecution(id, f))
     /\ tasks' = [tasks EXCEPT ![t] = ReplaceTop(@, [f EXCEPT !.pc = "poll",
                                                             !.sub = sub]),
                               ![u] = <<g>>]
     /\ Emit(g, <<WorkflowEvent("workflow_start", g)>>)
     /\ UNCHANGED <<main, outside, nodeExecutions, outcome, response>>

\* waitForCompletion finds the sub-execution completed or failed and returns
\* its result, which becomes the node's output
PollObserves(t) ==
  LET f == Top(t)
  IN /\ tasks[t] # <<>>
     /\ f.pc = "poll"
     /\ executions[f.sub].status \in {"completed", "failed"}
     /\ NodeCompletes(t, f, executions[f.sub].result)
     /\ UNCHANGED <<main, outside, executions, outcome, response>>

\* waitForCompletion gives up: maxAttempts polls went by and the sub-execution
\* was still not terminal; executeWorkflowNode wraps 'Execution timeout'
PollTimeout(t) ==
  LET f == Top(t)
  IN /\ tasks[t] # <<>>
     /\ f.pc = "poll"
     /\ executions[f.sub].status \notin {"completed", "failed"}
     /\ NodeFails(t, f, ErrSubWorkflow(executions[f.sub].workflowId, ErrTimeout))
     /\ UNCHANGED <<main, outside, executions, objState, outcome, response>>

\* executeWorkflow after the traversal returned: the completed update; the
\* value goes to the caller (execute's caller, or the invoking node)
WorkflowCompletes(t) ==
  LET f == Top(t)
  IN /\ tasks[t] # <<>>
     /\ f.pc = "return"
     /\ ~f.streaming
     /\ executions' = UpdateCompleted(executions, f.exec, f.ret)
     /\ IF Len(tasks[t]) = 1
        THEN /\ SetTop(t, [f EXCEPT !.pc = "done"])
             /\ outcome' = [outcome EXCEPT ![t] =
                  [kind |-> "returned", val |-> f.ret, err |-> NoError]]
        ELSE /\ tasks' = [tasks EXCEPT ![t] =
                  ReplaceTop(Pop(@), [Last(Pop(@)) EXCEPT !.pc = "resume",
                                                          !.ret = f.ret])]
             /\ UNCHANGED outcome
     /\ UNCHANGED <<main, outside, nodeExecutions, objState, response, events>>

\* executeNode of a workflow_executor node continues with the sub-workflow's
\* result as its output
SubWorkflowReturns(t) ==
  LET f == Top(t)
  IN /\ tasks[t] # <<>>
     /\ f.pc = "resume"
     /\ NodeCompletes(t, [f EXCEPT !.ret = Null], f.ret)
     /\ UNCHANGED <<main, outside, executions, outcome, response>>

\* variant: the catch block records the failure and swallows the error
ExecuteCatch_NoRethrow(t) ==
  LET f == Top(t)
  IN /\ tasks[t] # <<>>
     /\ f.pc = "throw"
     /\ ~f.streaming
     /\ Len(tasks[t]) = 1
     /\ executions' = UpdateFailed(executions, f.exec, f.err)
     /\ SetTop(t, [f EXCEPT !.pc = "done"])
     /\ outcome' = [outcome EXCEPT ![t] =
          [kind |-> "returned", val |-> Null, err |-> NoError]]
     /\ UNCHANGED <<main, outside, nodeExecutions, objState, response, events>>
\* execute's catch block: the failed update, the error rethrown to the caller
ExecuteCatch(t) ==
  LET f == Top(t)
  IN /\ tasks[t] # <<>>
     /\ f.pc = "throw"
     /\ ~f.streaming
     /\ Len(tasks[t]) = 1
     /\ executions' = UpdateFailed(executions, f.exec, f.err)
     /\ SetTop(t, [f EXCEPT !.pc = "done"])
     /\ outcome' = [outcome EXCEPT ![t] =
          [kind |-> "threw", val |-> Null, err |-> f.err]]
     /\ UNCHANGED <<main, outside, nodeExecutions, objState, response, events>>

\* executeWorkflowNode's catch block wraps the sub-workflow's error; the
\* invoking node's executeNode catches it
SubWorkflowThrows(t) ==
  LET f == Top(t)
      parent == Last(Pop(tasks[t]))
      msg == ErrSubWorkflow(f.wf, f.err)
  IN /\ tasks[t] # <<>>
     /\ f.pc = "throw"
     /\ Len(tasks[t]) > 1
     /\ nodeExecutions' = NodeUpdateFailed(nodeExecutions, parent.ne, msg)
     /\ tasks' = [tasks EXCEPT ![t] = ReplaceTop(Pop(@), Throw(parent, msg))]
     /\ UNCHANGED <<main, outside, executions, objState, outcome, response, events>>

\* runStreamingWorkflow after the traversal returned: the completed update
StreamCompletes(t) ==
  LET f == Top(t)
  IN /\ tasks[t] # <<>>
     /\ f.pc = "return"
     /\ f.streaming
     /\ executions' = UpdateCompleted(executions, f.exec, f.ret)
     /\ SetTop(t, [f EXCEPT !.pc = "completed"])
     /\ UNCHANGED <<main, outside, nodeExecutions, objState, outcome, response, events>>

\* runStreamingWorkflow resumes after the update: workflow_complete is sent
StreamCompleteEvent(t) ==
  LET f == Top(t)
  IN /\ tasks[t] # <<>>
     /\ f.pc = "completed"
     /\ Emit(f, <<WorkflowEvent("workflow_complete", f)>>)
     /\ SetTop(t, [f EXCEPT !.pc = "done"])
     /\ UNCHANGED <<main, outside, executions, nodeExecutions, objState, outcome, response>>

\* runStreamingWorkflow's catch block: the failed update
StreamCatch(t) ==
  LET f == Top(t)
  IN /\ tasks[t] # <<>>
     /\ f.pc = "throw"
     /\ f.streaming
     /\ executions' = UpdateFailed(executions, f.exec, f.err)
     /\ SetTop(t, [f EXCEPT !.pc = "failed"])
     /\ UNCHANGED <<main, outside, nodeExecutions, objState, outcome, response, events>>

\* the rethrown error reaches executeWithStreaming's .catch: an error event
StreamErrorEvent(t) ==
  LET f == Top(t)
  IN /\ tasks[t] # <<>>
     /\ f.pc = "failed"
     /\ Emit(f, <<WorkflowEvent("error", f)>>)
     /\ SetTop(t, [f EXCEPT !.pc = "done"])
     /\ UNCHANGED <<main, outside, executions, nodeExecutions, objState, outcome, response>>

\* variant: the record as it was created is returned, findById is not called
ServiceReturn_CreatedRecord(t) ==
  LET f == Top(t)
  IN /\ tasks[t] # <<>>
     /\ f.pc = "done"
     /\ f.service
     /\ response' = [response EXCEPT ![t] =
                       NewExecution(executions[f.exec].workflowId, "pending", 0)]
     /\ SetTop(t, [f EXCEPT !.pc = "responded"])
     /\ UNCHANGED <<main, outside, executions, nodeExecutions, objState, outcome, events>>
\* ExecutionService.executeWorkflow: the error is logged, findById is returned
ServiceReturn(t) ==
  LET f == Top(t)
  IN /\ tasks[t] # <<>>
     /\ f.pc = "done"
     /\ f.service
     /\ response' = [response EXCEPT ![t] = executions[f.exec]]
     /\ SetTop(t, [f EXCEPT !.pc = "responded"])
     /\ UNCHANGED <<main, outside, executions, nodeExecutions, objState, outcome, events>>

Next ==
  \E t \in TaskIds :
       \/ ServiceExecuteWorkflow(t)
       \/ ServiceMarkRunning(t)
       \/ StreamRequest(t)
       \/ StreamMarkRunning(t)
       \/ Validate(t)
       \/ LoopIteration(t)
       \/ IterationLimit(t)
       \/ EndNodeReconciliation(t)
       \/ ExecutorLookupFails(t)
       \/ ExecutorRunFails(t)
       \/ ExecutorChunk(t)
       \/ \E v \in 1..MaxOut : ExecutorReturns(t, v)
       \/ SubWorkflowLookupFails(t)
       \/ CallSubWorkflow(t)
       \/ \E u \in TaskIds : StreamSubWorkflow(t, u)
       \/ PollObserves(t)
       \/ PollTimeout(t)
       \/ WorkflowCompletes(t)
       \/ SubWorkflowReturns(t)
       \/ ExecuteCatch(t)
       \/ SubWorkflowThrows(t)
       \/ StreamCompletes(t)
       \/ StreamCompleteEvent(t)
       \/ StreamCatch(t)
       \/ StreamErrorEvent(t)
       \/ ServiceReturn(t)

Spec == Init /\ [][Next]_vars

\* ---------------------------------------------------------------- properties
Terminal == {"completed", "failed"}
\* the node-executions journalled for execution e, and those of its end node
NodeExecsOf(e) ==
  { k \in DOMAIN nodeExecutions : nodeExecutions[k].executionId = e }
EndRuns(e) ==
  { k \in NodeExecsOf(e) :
      nodeExecutions[k].nodeId = GetWorkflow(executions[e].workflowId).endNode }
\* call chains entered through WorkflowOrchestrator.execute
ExecuteDriven(t) == tasks[t] # <<>> /\ ~tasks[t][1].streaming
\* execute has returned or thrown on chain t
Finished(t) == outcome[t].kind # "none"
\* every activation that is still on some call chain
Activations ==
  { tasks[t][j] : <<t, j>> \in { p \in TaskIds \X (1..MaxDepth) :
                                   p[2] \in DOMAIN tasks[p[1]] } }

\* C1: an execution driven by execute is recorded completed exactly when the
\* traversal finished the end node, and then its result is the end node's
\* output (the value kept for the end node in nodeOutputs); otherwise it is
\* recorded failed and has no result.
C1_CompletedIffEndNodeFinished ==
  \A t \in TaskIds : ExecuteDriven(t) =>
    LET f == tasks[t][1]
        e == executions[f.exec]
        w == GetWorkflow(f.wf)
        done == { k \in EndRuns(f.exec) : nodeExecutions[k].status = "completed" }
    IN /\ e.status = "completed" =>
            /\ done # {}
            /\ \A k \in done : e.result = nodeExecutions[k].output
            /\ w.endNode \in DOMAIN f.nodeOutputs
            /\ e.result = f.nodeOutputs[w.endNode]
            /\ e.error = NoError
       /\ Finished(t) =>
            /\ e.status \in Terminal
            /\ e.status = "completed" <=> done # {}
            /\ e.status = "completed" <=> outcome[t].kind = "returned"
            /\ outcome[t].kind = "returned" => outcome[t].val = e.result
            /\ e.status = "failed" => e.result = Null /\ e.error # NoError

\* a run of several nodes whose record is completed with the end node's output
C1_Witness ==
  \E t \in TaskIds :
    /\ ExecuteDriven(t)
    /\ outcome[t].kind = "returned"
    /\ executions[tasks[t][1].exec].status = "completed"
    /\ executions[tasks[t][1].exec].result = MaxOut
    /\ Cardinality(NodeExecsOf(tasks[t][1].exec)) >= 2

\* C2: an execution's status only moves pending -> running -> completed or
\* failed; a record made by the service starts pending and is running before
\* its first node-execution is created; a terminal record's status, result and
\* error are never written again.
C2_StatusTransitions ==
  [][ /\ \A e \in DOMAIN executions :
           /\ e \in DOMAIN executions'
           /\ executions'[e].status # executions[e].status =>
                <<executions[e].status, executions'[e].status>> \in
                  { <<"pending", "running">>, <<"running", "completed">>,
                    <<"running", "failed">> }
           /\ executions[e].status \in Terminal =>
                /\ executions'[e].status = executions[e].status
                /\ executions'[e].result = executions[e].result
                /\ executions'[e].error = executions[e].error
      /\ \A t \in TaskIds :
           ( /\ tasks'[t] # <<>>
             /\ tasks'[t][1].service
             /\ tasks'[t][1].exec \notin DOMAIN executions ) =>
           executions'[tasks'[t][1].exec].status = "pending"
      /\ \A k \in DOMAIN nodeExecutions' \ DOMAIN nodeExecutions :
           executions[nodeExecutions'[k].executionId].status = "running"
    ]_vars

\* a service-made record that went through pending, running and failed
C2_Witness ==
  \E t \in TaskIds :
    /\ ExecuteDriven(t)
    /\ response[t].status = "failed"
    /\ executions[tasks[t][1].exec].status = "failed"
    /\ NodeExecsOf(tasks[t][1].exec) # {}

\* a node-execution is in flight while its executeNode call has not left
InFlight(k) ==
  \E f \in Activations : f.ne = k /\ f.pc \in {"node", "wait", "resume", "poll"}

\* C3: a node-execution is created running and receives exactly one terminal
\* update, completed with an output or failed with an error, never both and
\* never none once executeNode is left.
C3_OneTerminalUpdate ==
  \A k \in DOMAIN nodeExecutions :
    LET n == nodeExecutions[k]
    IN /\ n.writes <= 1
       /\ n.status \in {"running", "completed", "failed"}
       /\ n.status = "running" <=> n.writes = 0
       /\ n.status = "running" => ~n.completedAt /\ n.output = Null /\ n.error = NoError
       /\ n.status = "completed" => n.completedAt /\ n.error = NoError
       /\ n.status = "failed" => n.completedAt /\ n.error # NoError /\ n.output = Null
       /\ InFlight(k) <=> n.writes = 0

\* one node-execution completed and a later one failed in the same execution
C3_Witness ==
  \E k1, k2 \in DOMAIN nodeExecutions :
    /\ nodeExecutions[k1].executionId = nodeExecutions[k2].executionId
    /\ nodeExecutions[k1].status = "completed"
    /\ nodeExecutions[k1].output # Null
    /\ nodeExecutions[k2].status = "failed"
    /\ ~InFlight(k2)

\* errors raised inside executeNode by the lookup, the run or a setState rule
NodeRaised(msg) ==
  msg # NoError /\ Head(msg) \in { "Executor type not found",
                                   "executor run failed",
                                   "Failed to execute setState for key" }

SelfLoop(w) ==
  /\ w.startNode # w.endNode
  /\ EdgeMapHas(w, w.startNode)
  /\ EdgeMapGet(w, w.startNode).kind = "static"
  /\ EdgeMapGet(w, w.startNode).to = w.startNode

\* node visits against the budget N = maxIterations, in every activation
C5_Budget ==
  \A f \in Activations :
    LET w == GetWorkflow(f.wf)
        N == MaxIterationsOf(w)
        visits == NodeExecsOf(f.exec)
    IN /\ f.iterations <= N
       /\ Cardinality(visits) <= N
       /\ f.post => f.iterations < N
       /\ (f.pc = "return" \/ executions[f.exec].status = "completed") =>
            /\ Cardinality(visits) <= N
            /\ w.startNode # w.endNode => N >= 2
       /\ f.err = ErrExceeded(N) =>
            /\ f.iterations = N
            /\ Cardinality(visits) = N
            /\ \A k \in visits : /\ nodeExecutions[k].status = "completed"
                                 /\ nodeExecutions[k].nodeId # w.endNode
       /\ executions[f.exec].error = ErrExceeded(N) =>
            executions[f.exec].status = "failed" /\ Cardinality(visits) = N
       /\ ( /\ f.pc = "throw" /\ SelfLoop(w) /\ validateWorkflow(w) = NoError
            /\ \A k \in visits : nodeExecutions[k].status = "completed" ) =>
            /\ f.err = ErrExceeded(N)
            /\ Cardinality({ k \in visits :
                               nodeExecutions[k].nodeId = w.startNode }) = N

C6_EndNodeOnceAndLast ==
  /\ \A e \in DOMAIN executions :
       LET w == GetWorkflow(executions[e].workflowId)
           runs == EndRuns(e)
       IN validateWorkflow(w) = NoError =>
            /\ Cardinality(runs) <= 1
            /\ \A k \in runs : \A k2 \in NodeExecsOf(e) : k2 <= k
            /\ executions[e].status = "completed" =>
                 /\ Cardinality(runs) = 1
                 /\ \A k \in runs : nodeExecutions[k].status = "completed"
            /\ w.startNode = w.endNode =>
                 /\ Cardinality(NodeExecsOf(e)) <= 1
                 /\ executions[e].status = "completed" =>
                      Cardinality(NodeExecsOf(e)) = 1
  /\ \A f \in Activations :
       (f.pc = "return" /\ validateWorkflow(GetWorkflow(f.wf)) = NoError) =>
         Cardinality(EndRuns(f.exec)) = 1

\* an end node that has an outgoing edge of its own ran once, last
C6_Witness ==
  \E e \in DOMAIN executions :
    /\ executions[e].status = "completed"
    /\ EdgeMapHas(GetWorkflow(executions[e].workflowId),
                  GetWorkflow(executions[e].workflowId).endNode)
    /\ Cardinality(NodeExecsOf(e)) >= 2
    /\ Cardinality(EndRuns(e)) = 1

\* no node-execution failed because an executor was missing or threw
ExecutorsReturned ==
  \A k \in DOMAIN nodeExecutions :
    nodeExecutions[k].error = NoError \/
    Head(nodeExecutions[k].error) \notin { "Executor type not found",
                                           "executor run failed" }
\* every call chain that was started has run to its end
AllChainsOver ==
  /\ \E t \in TaskIds : tasks[t] # <<>>
  /\ \A t \in TaskIds : tasks[t] # <<>> =>
       Len(tasks[t]) = 1 /\ tasks[t][1].pc \in {"done", "responded"}

\* C7: provided executors return, every execution reaches completed or
\* failed: once all call chains are over no execution record is left pending
\* or running.
C7_EveryExecutionTerminal ==
  (AllChainsOver /\ ExecutorsReturned) =>
    \A e \in DOMAIN executions : executions[e].status \in Terminal

\* C8: when a sub-workflow fails, the sub-execution is failed and the parent
\* execution is failed, the invoking node-execution carrying 'Workflow
\* execution failed for workflow_id <id>: <original>', each record with
\* exactly one failed update, with and without streaming.
C8_SubFailureFailsBoth ==
  \A s \in DOMAIN executions : executions[s].invoker # 0 =>
    LET k == executions[s].invoker
        n == nodeExecutions[k]
        id == executions[s].workflowId
    IN /\ ( /\ n.status = "failed"
            /\ n.error # ErrSubWorkflow(id, ErrTimeout) ) =>
            /\ executions[s].status = "failed"
            /\ executions[s].writes = 1
            /\ n.error = ErrSubWorkflow(id, executions[s].error)
       /\ (executions[s].status = "failed" /\ ~InFlight(k)) =>
            /\ n.status = "failed"
            /\ n.error = ErrSubWorkflow(id, executions[s].error)
            /\ n.writes = 1
            /\ executions[n.executionId].status \in Terminal =>
                 /\ executions[n.executionId].status = "failed"
                 /\ executions[n.executionId].writes = 1

\* C9: the node-execution of a workflow_executor node becomes terminal only
\* after its sub-execution is terminal (a node failed by waitForCompletion's
\* 'Execution timeout' is left aside), and when the sub-execution completed
\* the node's output is the sub-execution's result.
C9_NodeTerminalAfterSubExecution ==
  \A s \in DOMAIN executions : executions[s].invoker # 0 =>
    LET n == nodeExecutions[executions[s].invoker]
        timedOut == ErrSubWorkflow(executions[s].workflowId, ErrTimeout)
    IN /\ (n.status \in Terminal /\ n.error # timedOut) =>
            executions[s].status \in Terminal
       /\ (n.status = "completed" /\ executions[s].status = "completed") =>
            n.output = executions[s].result

\* ------------------------------------------------ one cached workflow object
\* NodeExecutorFactory caches a WorkflowExecutor with its workflow object;
\* every WorkflowExecutor.execute creates an execution 'running' and calls
\* orchestrator.execute(this.workflow, execution).
WorkflowExecutorExecute(t) ==
  LET obj == 1
      exec == Len(executions) + 1
  IN /\ t = Min(TaskIds)
     /\ tasks[t] = <<>> \/ (Len(tasks[t]) = 1 /\ tasks[t][1].pc = "done")
     /\ Len(executions) < MaxRuns
     /\ objState' = IF objState = <<>> THEN <<main.state>> ELSE objState
     /\ executions' = Append(executions, NewExecution(main.id, "running", 0))
     /\ tasks' = [tasks EXCEPT ![t] = <<NewFrame(main.id, obj, exec, "validate")>>]
     /\ outcome' = [outcome EXCEPT ![t] = NoOutcome]
     /\ UNCHANGED <<main, outside, nodeExecutions, response, events>>

InitReuse ==
  /\ main \in ShapeWorkflows \cup SetStateWorkflows
  /\ executions = <<>>
  /\ nodeExecutions = <<>>
  /\ objState = <<>>
  /\ tasks = [t \in TaskIds |-> <<>>]
  /\ outcome = [t \in TaskIds |-> NoOutcome]
  /\ response = [t \in TaskIds |-> NoResponse]
  /\ events = <<>>
  /\ created = NoCreate
  /\ parser = NoParse
  /\ factory = NoFactory
  /\ journal = NoJournal
  /\ configs = NoConfigs

NextReuse ==
  \E t \in TaskIds :
       \/ WorkflowExecutorExecute(t)
       \/ Validate(t)
       \/ LoopIteration(t)
       \/ IterationLimit(t)
       \/ EndNodeReconciliation(t)
       \/ ExecutorLookupFails(t)
       \/ ExecutorRunFails(t)
       \/ \E v \in 1..MaxOut : ExecutorReturns(t, v)
       \/ WorkflowCompletes(t)
       \/ ExecuteCatch(t)

SpecReuse == InitReuse /\ [][NextReuse]_vars

\* C10: an execution never changes the workflow's declared initial state, so
\* every execution of a workflow object starts its traversal from the state
\* the workflow declares.
C10_StartsFromDeclaredState ==
  \A f \in Activations :
    f.pc = "validate" => objState[f.obj] = GetWorkflow(f.wf).state

\* the step in which executeNode leaves a node on chain t with a setState error
SetStateFailsOn(t) ==
  /\ tasks[t] # <<>>
  /\ Top(t).pc \in {"node", "resume", "poll"}
  /\ Len(tasks'[t]) = Len(tasks[t])
  /\ Last(tasks'[t]).pc = "throw"
  /\ Head(Last(tasks'[t]).err) = "Failed to execute setState for key"

\* C11: setState is atomic per node: when the rule of a key of the node's
\* setState list fails, every key of state keeps the value it had before the
\* node's setState began, and the node is failed with 'Failed to execute
\* setState for key <key>: <msg>'.
C11_SetStateAtomic ==
  [][ \A t \in TaskIds : SetStateFailsOn(t) =>
        /\ objState'[Top(t).obj] = objState[Top(t).obj]
        /\ nodeExecutions'[Top(t).ne].status = "failed"
        /\ nodeExecutions'[Top(t).ne].error = Last(tasks'[t]).err
    ]_vars

\* the step in which the node-execution in flight on chain t is completed
NodeCompletesOn(t) ==
  /\ tasks[t] # <<>>
  /\ Top(t).pc \in {"node", "resume", "poll"}
  /\ nodeExecutions[Top(t).ne].status = "running"
  /\ nodeExecutions'[Top(t).ne].status = "completed"

\* a setState list applied to state s with the node's output: named keys take
\* their rule's value, the other keys keep theirs
ApplyRules(rules, s, output) ==
  [key \in Keys |->
     IF \E i \in DOMAIN rules : rules[i].key = key
     THEN LET i == CHOOSE j \in DOMAIN rules : rules[j].key = key
          IN EvalRule(rules[i].rule, key, s, output).val
     ELSE s[key]]

\* the state execution e has built with its completed node-executions 1..k
RECURSIVE StateAfter(_, _)
StateAfter(e, k) ==
  IF k = 0 THEN GetWorkflow(executions[e].workflowId).state
  ELSE LET n == nodeExecutions[k]
           w == GetWorkflow(executions[e].workflowId)
       IN IF n.executionId = e /\ n.status = "completed"
          THEN ApplyRules(NodeMapGet(w, n.nodeId).setState,
                          StateAfter(e, k - 1), n.output)
          ELSE StateAfter(e, k - 1)

\* every node in flight was handed the state built by the earlier nodes
C12_InputState ==
  \A f \in Activations :
    f.pc \in {"node", "wait", "resume", "poll"} =>
      /\ f.input.state = StateAfter(f.exec, f.ne - 1)
      /\ objState[f.obj] = f.input.state

\* C12: after a node with setState completes, state[key] is the value of that
\* key's rule evaluated with output bound to the node's output, the keys the
\* node's setState does not name keep their value, and every node executed
\* later in the execution receives exactly this state in its input.
C12_SetStateApplied ==
  [][ /\ C12_InputState'
      /\ \A t \in TaskIds : NodeCompletesOn(t) =>
           LET f == Top(t)
               rules == NodeMapGet(GetWorkflow(f.wf), f.cur).setState
           IN objState'[f.obj] =
                ApplyRules(rules, objState[f.obj], nodeExecutions'[f.ne].output)
    ]_vars

\* a second node is in flight with the state the first node's setState made
C12_Witness ==
  \E f \in Activations :
    /\ f.pc = "node"
    /\ f.input.state # GetWorkflow(f.wf).state
    /\ f.input.state["y"] = MaxOut
    /\ f.input.state["x"] = 1
    /\ Cardinality(NodeExecsOf(f.exec)) >= 3

\* the node-executions of e completed before node-execution k was created
CompletedBefore(e, k) ==
  { j \in NodeExecsOf(e) : j < k /\ nodeExecutions[j].status = "completed" }
\* the same, as a parent mapping: node id |-> the latest output of that node
ParentFromJournal(e, k) ==
  [id \in { nodeExecutions[j].nodeId : j \in CompletedBefore(e, k) } |->
     nodeExecutions[Max({ j \in CompletedBefore(e, k) :
                            nodeExecutions[j].nodeId = id })].output]

\* C13: when a node is entered, the parent mapping of its input holds exactly
\* the nodes already completed in the execution, each with the value its
\* executor returned most recently; after a node completes, parent[nodeId] is
\* the value its executor returned.
C13_ParentMapping ==
  \A f \in Activations :
    /\ f.pc \in {"node", "wait", "resume", "poll"} =>
         f.input.parent = ParentFromJournal(f.exec, f.ne)
    /\ (f.ne # 0 /\ f.pc \notin {"node", "wait", "resume", "poll"}
        /\ nodeExecutions[f.ne].status = "completed") =>
         /\ f.nodeOutputs[nodeExecutions[f.ne].nodeId] = nodeExecutions[f.ne].output
         /\ f.nodeOutputs = ParentFromJournal(f.exec, f.ne + 1)

\* a node entered for the third time sees its second output, not its first
C13_Witness ==
  \E f \in Activations :
    /\ f.pc = "node"
    /\ f.cur \in DOMAIN f.input.parent
    /\ f.input.parent[f.cur] = MaxOut
    /\ \E j \in CompletedBefore(f.exec, f.ne) :
         nodeExecutions[j].nodeId = f.cur /\ nodeExecutions[j].output = 1

\* the top activation of chain t is about to leave a node through a dynamic
\* edge: the node is in flight, is not the end node, and its edge is dynamic
AtDynamicEdge(t) ==
  /\ tasks[t] # <<>>
  /\ Top(t).pc \in {"node", "resume", "poll"}
  /\ ~Top(t).post
  /\ Top(t).cur # GetWorkflow(Top(t).wf).endNode
  /\ EdgeMapHas(GetWorkflow(Top(t).wf), Top(t).cur)
  /\ EdgeMapGet(GetWorkflow(Top(t).wf), Top(t).cur).kind # "static"
\* what the edge's rule, or the first condition that holds, yields on state s:
\* a node id, another string, "#number" for a value that is no string, or
\* "#nothing" when no condition holds
RawEdgeValue(edge, s) ==
  IF edge.kind = "dynamic"
  THEN IF s["x"] < edge.rule.lt THEN edge.rule.then ELSE edge.rule.else
  ELSE LET passing == { i \in DOMAIN edge.conditions :
                          s["x"] < edge.conditions[i].lt }
       IN IF passing = {} THEN "#nothing"
          ELSE edge.conditions[Min(passing)].node
\* an execution whose top-level traversal ended with error kind `head` is
\* recorded failed with that error once its run is over
RecordedFailed(head) ==
  \A t \in TaskIds :
    ( /\ tasks[t] # <<>>
      /\ Len(tasks[t]) = 1
      /\ tasks[t][1].pc \in {"done", "responded", "failed"}
      /\ tasks[t][1].err # NoError
      /\ Head(tasks[t][1].err) = head ) =>
    /\ executions[tasks[t][1].exec].status = "failed"
    /\ executions[tasks[t][1].exec].error = tasks[t][1].err

C15_NonStringEdgeValue ==
  [][ /\ RecordedFailed("Failed to evaluate dynamic edge")'
      /\ \A t \in TaskIds : (AtDynamicEdge(t) /\ NodeCompletesOn(t)) =>
           LET f == Top(t)
               w == GetWorkflow(f.wf)
               edge == EdgeMapGet(w, f.cur)
               v == RawEdgeValue(edge, objState'[f.obj])
               g == Last(tasks'[t])
           IN /\ g.cur \notin {"#number", "#nothing"}
              /\ v \in {"#number", "#nothing"} =>
                   /\ g.pc = "throw"
                   /\ g.cur = f.cur
                   /\ g.err \in { ErrDynamic(edge.id, ErrNotString),
                                  ErrDynamic(edge.id, ErrNoCondition),
                                  ErrInvalidTarget(edge.id, v) }
    ]_vars

\* both forms failed an execution: a rule that returned a number, a condition
\* whose node is a number
C15_WitnessRule ==
  \E t \in TaskIds :
    /\ tasks[t] # <<>>
    /\ executions[tasks[t][1].exec].status = "failed"
    /\ executions[tasks[t][1].exec].error = ErrDynamic("e1", ErrNotString)
C15_Witness ==
  \E t \in TaskIds :
    /\ tasks[t] # <<>>
    /\ main \in ConditionsWorkflows
    /\ executions[tasks[t][1].exec].status = "failed"
    /\ executions[tasks[t][1].exec].error = ErrInvalidTarget("e1", "#number")


\* workflow w has a node other than its end node with no outgoing edge
HasDeadEnd(w) ==
  \E id \in NodeIds(w) : id # w.endNode /\ ~EdgeMapHas(w, id)

\* C16: a node other than endNode without an outgoing edge is rejected before
\* execution: an execution of a workflow containing such a node never
\* completes and no node of it is ever executed.
\* (stated for the executions WorkflowOrchestrator.execute drives)
C16_DeadEndRejectedBeforeExecution ==
  \A t \in TaskIds : ExecuteDriven(t) =>
    LET e == tasks[t][1].exec
    IN HasDeadEnd(GetWorkflow(executions[e].workflowId)) =>
         /\ NodeExecsOf(e) = {}
         /\ executions[e].status # "completed"


\* ------------------------------------------------- WorkflowService.createWorkflow
\* The workflows handed to createWorkflow: nodes a, b, e; up to MaxEdges edges
\* between a, e and the unknown id zz, static or dynamic; start and end node
\* among a, e and zz.  Node b has no edge and is never reached.
EdgeEnds == {"a", "e", "zz"}
EdgeShapes ==
  { StaticEdge("", f, t) : f \in EdgeEnds, t \in EdgeEnds }
    \cup { DynamicEdge("", f, 1, "a", "e") : f \in EdgeEnds }
EdgeIdOf(i) == <<"e1", "e2", "e3", "e4">>[i]
EdgeLists ==
  { [i \in DOMAIN es |-> [es[i] EXCEPT !.id = EdgeIdOf(i)]] :
      es \in UNION { [1..n -> EdgeShapes] : n \in 0..MaxEdges } }
DtoWorkflows ==
  { Workflow("main", ABE(SS_None, Plain("b", SS_None)), es, s, t, MaxIter) :
      es \in EdgeLists, s \in EdgeEnds, t \in EdgeEnds }
\* nothing is stored under the id before createWorkflow
NoWorkflow == Workflow("", <<>>, <<>>, "", "", 0)

InitService ==
  /\ main = NoWorkflow
  /\ executions = <<>>
  /\ nodeExecutions = <<>>
  /\ objState = <<>>
  /\ tasks = [t \in TaskIds |-> <<>>]
  /\ outcome = [t \in TaskIds |-> NoOutcome]
  /\ response = [t \in TaskIds |-> NoResponse]
  /\ events = <<>>
  /\ parser = NoParse
  /\ factory = NoFactory
  /\ journal = NoJournal
  /\ configs = NoConfigs
  /\ \E d \in DtoWorkflows :
       created = [dto |-> d, status |-> "pending", error |-> NoError]

\* createWorkflow: validateWorkflow(dto) throws
CreateWorkflowRejects ==
  /\ created.status = "pending"
  /\ validateWorkflow(created.dto) # NoError
  /\ created' = [created EXCEPT !.status = "rejected",
                                !.error = validateWorkflow(created.dto)]
  /\ UNCHANGED <<main, executions, nodeExecutions, objState, tasks, outcome,
                 response, events, parser, factory, journal, configs>>
\* createWorkflow: workflowRepo.create({...dto, state: {}, maxIterations: 50})
CreateWorkflowStores ==
  /\ created.status = "pending"
  /\ validateWorkflow(created.dto) = NoError
  /\ main' = [created.dto EXCEPT !.state = <<>>,
                                 !.maxIterations = CreatedMaxIterations]
  /\ created' = [created EXCEPT !.status = "stored"]
  /\ UNCHANGED <<executions, nodeExecutions, objState, tasks, outcome,
                 response, events, parser, factory, journal, configs>>

NextService == CreateWorkflowRejects \/ CreateWorkflowStores
SpecService == InitService /\ [][NextService]_vars

\* the five defects of a workflow, each stated on the workflow itself
StartMissing(w) == w.startNode \notin NodeIds(w)
EndMissing(w) == w.endNode \notin NodeIds(w)
FromMissing(w) == \E i \in DOMAIN w.edges : w.edges[i].from \notin NodeIds(w)
StaticToMissing(w) ==
  \E i \in DOMAIN w.edges :
    w.edges[i].kind = "static" /\ w.edges[i].to \notin NodeIds(w)
SeveralOutgoing(w) ==
  \E id \in NodeIds(w) :
    \E i, j \in DOMAIN w.edges :
      i # j /\ w.edges[i].from = id /\ w.edges[j].from = id

\* C17: validateWorkflow raises an error exactly when startNode or endNode is
\* no node id, some edge's from is no node id, some static edge's to is no
\* node id, or some node has more than one outgoing edge; every other
\* workflow is accepted, with cycles, self-loops or unreachable nodes.
C17_ValidatorExact ==
  created.status \in {"rejected", "stored"} =>
    LET w == created.dto
    IN /\ created.status = "rejected" <=>
            \/ StartMissing(w) \/ EndMissing(w) \/ FromMissing(w)
            \/ StaticToMissing(w) \/ SeveralOutgoing(w)
       /\ created.status = "rejected" <=> created.error # NoError
       /\ created.status = "stored" => main.nodes = w.nodes /\ main.edges = w.edges

\* a stored workflow with a self-loop on its end node, a cycle a -> e -> a
\* and the unreachable node b
C17_Witness ==
  /\ created.status = "stored"
  /\ \E i, j \in DOMAIN main.edges :
       /\ main.edges[i].from = "a" /\ main.edges[i].kind = "static"
       /\ main.edges[i].to = "e"
       /\ main.edges[j].from = "e" /\ main.edges[j].to = "a"
\* a stored workflow whose only edge is a self-loop
C17_WitnessSelfLoop ==
  /\ created.status = "stored"
  /\ \E i \in DOMAIN main.edges : main.edges[i].from = main.edges[i].to
\* a workflow rejected only for two outgoing edges of one node
C17_WitnessRejected ==
  /\ created.status = "rejected"
  /\ SeveralOutgoing(created.dto)
  /\ ~StartMissing(created.dto) /\ ~EndMissing(created.dto)
  /\ ~FromMissing(created.dto) /\ ~StaticToMissing(created.dto)


\* C18: on every execution path (execute, executeWithStreaming, sub-workflow
\* invocation) the workflow is validated before a node-execution is created:
\* a workflow the validator rejects gets no node-execution, and its execution,
\* once over, is recorded failed with the validation error.
C18_ValidatedBeforeAnyNode ==
  \A e \in DOMAIN executions :
    LET err == validateWorkflow(GetWorkflow(executions[e].workflowId))
    IN err # NoError =>
         /\ NodeExecsOf(e) = {}
         /\ executions[e].status \in Terminal =>
              /\ executions[e].status = "failed"
              /\ executions[e].error = err

\* the same on the chains WorkflowOrchestrator.execute drives, sub-workflows
\* included (the record of a sub-execution is left aside, see C8)
ExecutePathValidated ==
  \A t \in TaskIds : ExecuteDriven(t) =>
    \A j \in DOMAIN tasks[t] :
      LET e == tasks[t][j].exec
          err == validateWorkflow(GetWorkflow(executions[e].workflowId))
      IN err # NoError =>
           /\ NodeExecsOf(e) = {}
           /\ (j = 1 /\ executions[e].status \in Terminal) =>
                /\ executions[e].status = "failed"
                /\ executions[e].error = err


\* the node-executions of execution e for node id
RunsOf(e, id) == { k \in NodeExecsOf(e) : nodeExecutions[k].nodeId = id }
\* a completed execution of the counter loop ran counter and check K times
\* each, end once, and its result is end's output
CounterLoopRuns ==
  \A e \in DOMAIN executions :
    ( /\ main \in CounterLoopWorkflows
      /\ executions[e].workflowId = "main"
      /\ executions[e].status = "completed" ) =>
    LET K == EdgeMapGet(main, "b").rule.lt
    IN /\ Cardinality(RunsOf(e, "a")) = K
       /\ Cardinality(RunsOf(e, "b")) = K
       /\ Cardinality(RunsOf(e, "e")) = 1
       /\ \A k \in RunsOf(e, "e") :
            /\ nodeExecutions[k].status = "completed"
            /\ executions[e].result = nodeExecutions[k].output

\* C19: the dynamic edge leaving a node is evaluated after that node's
\* setState, on the live state; every visit of a node creates a node-execution
\* of its own; in the counter loop counter and check run K times each, end
\* once, and the result is end's output.
C19_CounterLoop ==
  [][ /\ CounterLoopRuns'
      /\ \A t \in TaskIds :
           ( /\ tasks[t] # <<>>
             /\ Len(tasks'[t]) = Len(tasks[t])
             /\ Top(t).pc = "loop"
             /\ Last(tasks'[t]).pc \in {"node", "wait"} ) =>
           /\ Len(nodeExecutions') = Len(nodeExecutions) + 1
           /\ Last(tasks'[t]).ne = Len(nodeExecutions')
      /\ \A t \in TaskIds : (AtDynamicEdge(t) /\ NodeCompletesOn(t)) =>
           LET f == Top(t)
               w == GetWorkflow(f.wf)
               edge == EdgeMapGet(w, f.cur)
               after == ApplyRules(NodeMapGet(w, f.cur).setState,
                                   objState[f.obj],
                                   nodeExecutions'[f.ne].output)
               g == Last(tasks'[t])
           IN /\ objState'[f.obj] = after
              /\ g.pc # "throw" => g.cur = RawEdgeValue(edge, after)
    ]_vars

\* the counter loop with the largest K has completed
C19_Witness ==
  \E e \in DOMAIN executions :
    /\ main \in CounterLoopWorkflows
    /\ EdgeMapGet(main, "b").rule.lt = MaxLoop
    /\ executions[e].status = "completed"
    /\ Cardinality(NodeExecsOf(e)) = 2 * MaxLoop + 1


\* the node_start events the top-level traversal has emitted so far
TopLevelNodeStarts ==
  { i \in DOMAIN events :
      events[i].type = "node_start" /\ events[i].depth = 0 }

\* C20: in a streaming execution the iteration counter of the traversal
\* equals, at every step, the number of node_start events the traversal has
\* emitted so far (stated for workflows the validator accepts).
C20_IterationsCountNodeStarts ==
  \A t \in TaskIds :
    ( /\ tasks[t] # <<>>
      /\ tasks[t][1].streaming
      /\ validateWorkflow(main) = NoError ) =>
      tasks[t][1].iterations = Cardinality(TopLevelNodeStarts)


\* ----------------------------------------------------------- event stream
NodeTerminalEvents == {"node_complete", "error"}

\* C21: in a streaming execution the events of one node visit are ordered:
\* node_start comes before every other event of the visit, node_complete or
\* error after all of them, and at most one of these two is sent; the
\* workflow_start of an execution precedes all node events of that execution
\* and its workflow_complete follows all of them.
C21_EventOrder ==
  \A i, j \in DOMAIN events :
    /\ ( /\ events[i].visit # 0
         /\ events[j].visit = events[i].visit
         /\ i # j ) =>
         /\ events[i].type = "node_start" => i < j
         /\ events[i].type \in NodeTerminalEvents => j < i
    /\ ( /\ events[i].visit = 0
         /\ events[j].visit # 0
         /\ events[j].exec = events[i].exec ) =>
         /\ events[i].type = "workflow_start" => i < j
         /\ events[i].type = "workflow_complete" => j < i

\* a visit with node_start, MaxChunks chunks and node_complete, in a run that
\* sent workflow_complete
C21_Witness ==
  \E i, k, l \in DOMAIN events :
    /\ events[i].type = "node_start"
    /\ events[k].type = "node_complete" /\ events[k].visit = events[i].visit
    /\ Cardinality({ j \in DOMAIN events :
                       /\ events[j].type = "node_chunk"
                       /\ events[j].visit = events[i].visit }) = MaxChunks
    /\ events[l].type = "workflow_complete"
    /\ events[l].exec = events[i].exec
\* a visit with chunks that ended with the error event
C21_WitnessError ==
  \E i, j, k \in DOMAIN events :
    /\ events[i].type = "node_start"
    /\ events[j].type = "node_chunk" /\ events[j].visit = events[i].visit
    /\ events[k].type = "error" /\ events[k].visit = events[i].visit
\* the events of a streamed sub-workflow between the invoking node's
\* node_start and node_complete
C21_WitnessSub ==
  \E i, j, k \in DOMAIN events :
    /\ i < j /\ j < k
    /\ events[i].type = "node_start" /\ events[i].depth = 0
    /\ events[j].type = "workflow_complete" /\ events[j].depth = 1
    /\ events[k].type = "node_complete" /\ events[k].visit = events[i].visit


\* ------------------------------------------ ExecutionService.executeWorkflow
\* C22: ExecutionService.executeWorkflow on an existing workflow does not
\* throw when the orchestrator fails (validation, node, edge, iteration
\* limit): an orchestrator that has returned or thrown leaves the service
\* about to answer, and the answer is the execution record, completed with
\* the result or failed with the error, never pending or running.
C22_ServiceReturnsFinalRecord ==
  \A t \in TaskIds :
    (tasks[t] # <<>> /\ tasks[t][1].service) =>
      LET f == tasks[t][1]
      IN /\ Finished(t) => Len(tasks[t]) = 1 /\ f.pc \in {"done", "responded"}
         /\ f.pc = "responded" <=> response[t].status # "none"
         /\ f.pc = "responded" =>
              /\ response[t] = executions[f.exec]
              /\ response[t].status \in Terminal
              /\ response[t].status = "completed" =>
                   /\ outcome[t].kind = "returned"
                   /\ response[t].result = outcome[t].val
                   /\ response[t].error = NoError
              /\ response[t].status = "failed" =>
                   /\ outcome[t].kind = "threw"
                   /\ response[t].error = outcome[t].err
                   /\ response[t].error # NoError
                   /\ response[t].result = Null

\* the service answered with a failed record after the iteration limit
C22_Witness ==
  \E t \in TaskIds :
    /\ response[t].status = "failed"
    /\ outcome[t].kind = "threw"
    /\ Head(response[t].error) = Head(ErrExceeded(MaxIter))
\* ... after a validation error, a node error, an edge error, and completed
C22_WitnessValidation ==
  \E t \in TaskIds :
    /\ response[t].status = "failed"
    /\ response[t].error = validateWorkflow(main)
C22_WitnessNode ==
  \E t \in TaskIds :
    /\ response[t].status = "failed"
    /\ response[t].error = ErrExecutorRun
C22_WitnessEdge ==
  \E t \in TaskIds :
    /\ response[t].status = "failed"
    /\ response[t].error = ErrNoEdge("a")
C22_WitnessCompleted ==
  \E t \in TaskIds :
    /\ response[t].status = "completed"
    /\ response[t].result = MaxOut


\* ------------------------------------------------------- journal consistency
\* what an observer may rely on when reading one record
RecordConsistent(r) ==
  /\ r.status \in Terminal <=> r.completedAt
  /\ r.status = "failed" <=> r.error # NoError
\* a record reaches a terminal status by exactly one update and is not
\* written again
TerminalInOneUpdate(old, new) ==
  /\ (old.status \notin Terminal /\ new.status \in Terminal) =>
       new.writes = old.writes + 1
  /\ old.status \in Terminal => new = old

\* C23: in every state each execution record and each node-execution record
\* has completedAt set exactly when its status is completed or failed and
\* error set exactly when its status is failed; the result of a completed
\* execution (the output of a completed node-execution) is written by the
\* update that sets the status, and the record is not written afterwards.
C23_RecordsNeverPartial ==
  [][ /\ \A e \in DOMAIN executions' : RecordConsistent(executions'[e])
      /\ \A k \in DOMAIN nodeExecutions' : RecordConsistent(nodeExecutions'[k])
      /\ \A e \in DOMAIN executions :
           TerminalInOneUpdate(executions[e], executions'[e])
      /\ \A k \in DOMAIN nodeExecutions :
           TerminalInOneUpdate(nodeExecutions[k], nodeExecutions'[k])
    ]_vars

\* a failed and a completed execution and a failed and a completed
\* node-execution are in the journal
C23_Witness ==
  /\ \E e \in DOMAIN executions : executions[e].status = "failed"
  /\ \E e \in DOMAIN executions :
       executions[e].status = "completed" /\ executions[e].result # Null
  /\ \E k \in DOMAIN nodeExecutions : nodeExecutions[k].status = "failed"
  /\ \E k \in DOMAIN nodeExecutions : nodeExecutions[k].status = "completed"


\* C24: a workflow created through createWorkflow with maxIterations = N and
\* initial state S is stored with iteration limit N and initial state S.
C24_CreatedAsGiven ==
  created.status = "stored" =>
    /\ main.maxIterations = created.dto.maxIterations
    /\ main.state = created.dto.state
    /\ MaxIterationsOf(main) = MaxIterationsOf(created.dto)


\* ------------------------------------------------------------ TemplateParser
\* A string is a sequence of tokens: a piece of text without '{{', or a
\* placeholder {{path}}.  A value is tagged: "str" (v = its tokens), "num"
\* (v = the text String() gives for it), "arr" and "obj" (v = the members, for
\* a mapping in key order; the keys are kept by parseObject and left out).
Text(x) == [ph |-> FALSE, text |-> x]
Placeholder(path) == [ph |-> TRUE, text |-> path]
Str(tokens) == [t |-> "str", v |-> tokens]
Num(x) == [t |-> "num", v |-> <<Text(x)>>]
Arr(items) == [t |-> "arr", v |-> items]
Obj(items) == [t |-> "obj", v |-> items]

ContextKeys == {"a", "b"}
Tokens == {Text("t")} \cup { Placeholder(k) : k \in ContextKeys }
SeqsUpTo(S, n) == UNION { [1..k -> S] : k \in 0..n }
\* what the context holds under a key: a number or a string
ContextValues ==
  {Num("1")} \cup { Str(s) : s \in SeqsUpTo(Tokens, MaxValueTokens) }
Contexts == [ContextKeys -> ContextValues]
RECURSIVE TemplatesOfNest(_)
TemplatesOfNest(n) ==
  IF n = 0
  THEN {Num("1")} \cup { Str(s) : s \in SeqsUpTo(Tokens, MaxTokens) }
  ELSE TemplatesOfNest(n - 1)
         \cup { Arr(<<m>>) : m \in TemplatesOfNest(n - 1) }
         \cup { Obj(<<m>>) : m \in TemplatesOfNest(n - 1) }
Templates == TemplatesOfNest(MaxNest)

\* eval(path, context) for a path that names a key of the context
Eval(path, c) == c[path]
\* /^\{\{[^}]+\}\}$/.test(str.trim()): one placeholder and nothing else
isFullTemplateExpression(s) == Len(s) = 1 /\ s[1].ph
RECURSIVE Concat(_)
Concat(ss) == IF ss = <<>> THEN <<>> ELSE Head(ss) \o Concat(Tail(ss))
\* template.replace(/\{\{([^}]+)\}\}/g, ...): every placeholder gives way to
\* String(eval(path)), which is not scanned again
parseString(s, c) ==
  IF isFullTemplateExpression(s) THEN Eval(s[1].text, c)
  ELSE Str(Concat([i \in DOMAIN s |->
                     IF s[i].ph THEN Eval(s[i].text, c).v ELSE <<s[i]>>]))
RECURSIVE parse(_, _)
parse(m, c) ==
  IF m.t = "str" THEN parseString(m.v, c)
  ELSE IF m.t \in {"arr", "obj"}
  THEN [t |-> m.t, v |-> [i \in DOMAIN m.v |-> parse(m.v[i], c)]]
  ELSE m

InitParser ==
  /\ main = NoWorkflow
  /\ executions = <<>>
  /\ nodeExecutions = <<>>
  /\ objState = <<>>
  /\ tasks = [t \in TaskIds |-> <<>>]
  /\ outcome = [t \in TaskIds |-> NoOutcome]
  /\ response = [t \in TaskIds |-> NoResponse]
  /\ events = <<>>
  /\ created = NoCreate
  /\ factory = NoFactory
  /\ journal = NoJournal
  /\ configs = NoConfigs
  /\ \E m \in Templates, c \in Contexts :
       parser = [stage |-> "start", template |-> m, context |-> c,
                 once |-> m, twice |-> m]

\* parse(M, C)
ParseOnce ==
  /\ parser.stage = "start"
  /\ parser' = [parser EXCEPT !.stage = "once",
                              !.once = parse(parser.template, parser.context)]
  /\ UNCHANGED <<main, executions, nodeExecutions, objState, tasks, outcome,
                 response, events, created, factory, journal, configs>>
\* parse(parse(M, C), C)
ParseAgain ==
  /\ parser.stage = "once"
  /\ parser' = [parser EXCEPT !.stage = "twice",
                              !.twice = parse(parser.once, parser.context)]
  /\ UNCHANGED <<main, executions, nodeExecutions, objState, tasks, outcome,
                 response, events, created, factory, journal, configs>>

NextParser == ParseOnce \/ ParseAgain
SpecParser == InitParser /\ [][NextParser]_vars

\* C25: TemplateParser.parse is idempotent: parse(parse(M, C), C) is
\* structurally equal to parse(M, C) for every template M and context C.
C25_ParseIdempotent ==
  parser.stage = "twice" => parser.twice = parser.once


\* ---------------------------------------------------- nesting of the events
\* the execution that invoked execution e (0 for a top-level execution)
ParentOf(e) ==
  IF executions[e].invoker = 0 THEN 0
  ELSE nodeExecutions[executions[e].invoker].executionId
RECURSIVE DepthOf(_)
DepthOf(e) == IF ParentOf(e) = 0 THEN 0 ELSE DepthOf(ParentOf(e)) + 1
RECURSIVE PathOf(_)
PathOf(e) ==
  IF ParentOf(e) = 0 THEN <<>>
  ELSE Append(PathOf(ParentOf(e)), nodeExecutions[executions[e].invoker].nodeId)

\* every event carries the depth and the path of its execution, a node-level
\* event the path extended by its node id
EventsDepthAndPath ==
  \A i \in DOMAIN events :
    LET ev == events[i]
    IN /\ ev.depth = DepthOf(ev.exec)
       /\ ev.path = IF ev.visit = 0 THEN PathOf(ev.exec)
                    ELSE Append(PathOf(ev.exec), nodeExecutions[ev.visit].nodeId)
       /\ ev.visit # 0 => /\ nodeExecutions[ev.visit].executionId = ev.exec
                          /\ nodeExecutions[ev.visit].nodeId = ev.nodeId

\* C26: every event of a sub-workflow carries depth = its parent's depth + 1,
\* path = the parent's path extended by the invoking node id, and names the
\* parent execution as parentExecutionId; events of a top-level execution have
\* depth 0; a node-level event's path is the workflow's path extended by the
\* node id.
C26_SubWorkflowEvents ==
  /\ EventsDepthAndPath
  /\ \A i \in DOMAIN events :
       ParentOf(events[i].exec) # 0 =>
         events[i].parentExecutionId = ParentOf(events[i].exec)


\* ---------------------------------------------------------------------------
\* NodeExecutorFactory: getExecutor, loadCustomExecutor, clearCache
\* ---------------------------------------------------------------------------
\* bound: how many WorkflowExecutor wrappers one factory builds
MaxLoads == 3
\* registerBuiltinExecutors: the keys of builtinExecutors
BuiltinTypes == {"data_transformer", "sql_query", "http_request"}
\* types of custom executors (createNodeExecutorSchema: non-empty, [a-z_]+)
CustomTypes == {"custom_a", "custom_b"}
ExecutorTypes == BuiltinTypes \cup CustomTypes
\* what the two repositories hold for a type: no node_executors row, a row
\* without sourceWorkflowId, a row whose workflow is gone, a row and its workflow
RepoStates == {"absent", "no_source", "source_missing", "loadable"}
NoExecutor == [kind |-> "none", type |-> "", instance |-> 0]
\* the instance registered in the constructor
BuiltinInstance(type) == [kind |-> "builtin", type |-> type, instance |-> 0]
\* new WorkflowExecutor(...): the n-th wrapper this factory built
WorkflowExecutor(type, n) == [kind |-> "custom", type |-> type, instance |-> n]

\* loadCustomExecutor(type): the error it throws, NoError when it returns
loadCustomExecutor(repo, type) ==
  CASE repo[type] = "absent" -> <<"Executor type not found", type>>
    [] repo[type] = "no_source" -> <<"Custom executor has no source workflow", type>>
    [] repo[type] = "source_missing" -> <<"Source workflow not found for executor", type>>
    [] OTHER -> NoError

\* getExecutor(nodeType): builtinExecutors, then customExecutorCache, then
\* loadCustomExecutor and customExecutorCache.set
getExecutor(f, nodeType) ==
  IF nodeType \in BuiltinTypes
    THEN [f EXCEPT !.op = "getExecutor", !.type = nodeType,
                   !.result = BuiltinInstance(nodeType),
                   !.error = NoError, !.consulted = FALSE]
    ELSE IF f.cache[nodeType] # 0
      THEN [f EXCEPT !.op = "getExecutor", !.type = nodeType,
                     !.result = WorkflowExecutor(nodeType, f.cache[nodeType]),
                     !.error = NoError, !.consulted = FALSE]
      ELSE IF loadCustomExecutor(f.repo, nodeType) # NoError
        THEN [f EXCEPT !.op = "getExecutor", !.type = nodeType,
                       !.result = NoExecutor,
                       !.error = loadCustomExecutor(f.repo, nodeType),
                       !.consulted = TRUE]
        ELSE [f EXCEPT !.op = "getExecutor", !.type = nodeType,
                       !.result = WorkflowExecutor(nodeType, f.built + 1),
                       !.error = NoError, !.consulted = TRUE,
                       !.built = f.built + 1,
                       !.cache = [f.cache EXCEPT ![nodeType] = f.built + 1]]

clearCache_EveryEntry(f, type) ==
  [f EXCEPT !.op = "clearCache", !.type = type,
            !.result = NoExecutor, !.error = NoError, !.consulted = FALSE,
            !.cache = [x \in ExecutorTypes |-> 0]]
\* clearCache(type): customExecutorCache.delete(type)
clearCache(f, type) ==
  [f EXCEPT !.op = "clearCache", !.type = type,
            !.result = NoExecutor, !.error = NoError, !.consulted = FALSE,
            !.cache = [f.cache EXCEPT ![type] = 0]]
\* clearCache(): customExecutorCache.clear()
clearCacheAll(f) ==
  [f EXCEPT !.op = "clearCacheAll", !.type = "",
            !.result = NoExecutor, !.error = NoError, !.consulted = FALSE,
            !.cache = [x \in ExecutorTypes |-> 0]]

\* the factory after its constructor; the repositories hold anything
InitFactory ==
  /\ main = NoWorkflow
  /\ executions = <<>>
  /\ nodeExecutions = <<>>
  /\ objState = <<>>
  /\ tasks = [t \in TaskIds |-> <<>>]
  /\ outcome = [t \in TaskIds |-> NoOutcome]
  /\ response = [t \in TaskIds |-> NoResponse]
  /\ events = <<>>
  /\ created = NoCreate
  /\ parser = NoParse
  /\ journal = NoJournal
  /\ configs = NoConfigs
  /\ \E r \in [ExecutorTypes -> RepoStates] :
       factory = [op |-> "none", type |-> "", result |-> NoExecutor,
                  error |-> NoError, consulted |-> FALSE, built |-> 0,
                  cache |-> [x \in ExecutorTypes |-> 0], repo |-> r]

FactoryOnly ==
  UNCHANGED <<main, executions, nodeExecutions, objState, tasks, outcome,
              response, events, created, parser, journal, configs>>

GetExecutor(nodeType) ==
  /\ factory.built < MaxLoads
  /\ factory' = getExecutor(factory, nodeType)
  /\ FactoryOnly
ClearCacheOfType(type) ==
  /\ factory' = clearCache(factory, type)
  /\ FactoryOnly
ClearCacheAll ==
  /\ factory' = clearCacheAll(factory)
  /\ FactoryOnly
\* a custom executor or its source workflow is created or deleted between calls
RepositoryChanges(type, st) ==
  /\ factory.repo[type] # st
  /\ factory' = [factory EXCEPT !.op = "repository", !.type = type,
                                !.result = NoExecutor, !.error = NoError,
                                !.consulted = FALSE, !.repo[type] = st]
  /\ FactoryOnly

NextFactory ==
  \/ \E type \in ExecutorTypes : GetExecutor(type)
  \/ \E type \in ExecutorTypes : ClearCacheOfType(type)
  \/ ClearCacheAll
  \/ \E type \in CustomTypes, st \in RepoStates : RepositoryChanges(type, st)
SpecFactory == InitFactory /\ [][NextFactory]_vars

\* what one call may do to the cache and what it returns
FactoryCall(f, g) ==
  /\ (g.op = "getExecutor" /\ g.type \in BuiltinTypes) =>
       /\ g.result = BuiltinInstance(g.type)
       /\ ~g.consulted
       /\ g.cache = f.cache
  /\ (g.op = "getExecutor" /\ g.type \notin BuiltinTypes /\ f.cache[g.type] # 0) =>
       /\ g.result = WorkflowExecutor(g.type, f.cache[g.type])
       /\ ~g.consulted
       /\ g.cache = f.cache
  /\ (g.op = "getExecutor" /\ g.type \notin BuiltinTypes /\ f.cache[g.type] = 0) =>
       /\ g.consulted
       /\ IF g.error = NoError
            THEN /\ g.result.kind = "custom"
                 /\ g.result.type = g.type
                 /\ g.result.instance > f.built
                 /\ g.cache = [f.cache EXCEPT ![g.type] = g.result.instance]
            ELSE /\ g.result = NoExecutor
                 /\ g.cache = f.cache
  /\ g.op = "clearCache" => g.cache = [f.cache EXCEPT ![g.type] = 0]
  /\ g.op = "clearCacheAll" => \A x \in ExecutorTypes : g.cache[x] = 0
  /\ g.op = "repository" => g.cache = f.cache

\* C27: over any sequence of getExecutor and clearCache calls, a built-in type
\* resolves to the built-in instance without a repository read; a custom type
\* is loaded only when it is not cached, is then cached, and the cached wrapper
\* is what later calls return until it is evicted; clearCache(type) evicts that
\* type only, clearCache() evicts every entry; a failed load caches nothing.
C27_FactoryCache ==
  [][factory'.op # "none" => FactoryCall(factory, factory')]_vars

\* a cached wrapper is returned although its record has since been deleted and
\* another type was evicted in between
C27_Witness ==
  /\ factory.op = "getExecutor"
  /\ factory.type = "custom_a"
  /\ factory.result = WorkflowExecutor("custom_a", 1)
  /\ ~factory.consulted
  /\ factory.repo["custom_a"] = "absent"
  /\ factory.built = 2
  /\ factory.cache["custom_b"] = 0
\* a failed load
C27_WitnessFailedLoad ==
  /\ factory.op = "getExecutor"
  /\ factory.error # NoError
  /\ factory.cache["custom_b"] # 0
\* clearCache(type) with two entries cached
C27_WitnessEvicted ==
  /\ factory.op = "clearCache"
  /\ factory.cache["custom_a"] = 0
  /\ factory.cache["custom_b"] # 0
  /\ factory.type = "custom_a"
  /\ factory.built = 2


\* ---------------------------------------------------------------------------
\* Configs: the snapshot an execution runs with, under concurrent config changes
\* ---------------------------------------------------------------------------
\* Workflows for the runs under changing configs: the start node invokes a
\* stored workflow or fails to, node a streams, a loop runs out of iterations;
\* each with and without a default config.
ConfigWorkflowShapes ==
  { w \in SubCallWorkflows :
      /\ w.startNode = "b"
      /\ w.maxIterations = MaxIter
      /\ NodeMapGet(w, "b").workflow_id \in {"s_ok", "s_rec", "ghost"} }
    \cup { w \in StreamingNodeWorkflows :
             /\ NodeMapGet(w, "a").streaming.sendOnComplete
             /\ NodeMapGet(w, "a").setState = SS_None }
    \cup { Workflow("main", ABE(SS_Inc, Plain("b", SS_Out)),
                    <<StaticEdge("e1", "a", "a")>>, "a", "e", 1) }
ConfigWorkflows ==
  { [w EXCEPT !.defaultConfigId = d] :
      w \in ConfigWorkflowShapes, d \in {NoConfigId, "c2"} }

InitConfig ==
  /\ main \in ConfigWorkflows
  /\ executions = <<>>
  /\ nodeExecutions = <<>>
  /\ objState = <<>>
  /\ tasks = [t \in TaskIds |-> <<>>]
  /\ outcome = [t \in TaskIds |-> NoOutcome]
  /\ response = [t \in TaskIds |-> NoResponse]
  /\ events = <<>>
  /\ created = NoCreate
  /\ parser = NoParse
  /\ factory = NoFactory
  /\ journal = NoJournal
  /\ configs = NoConfigs

\* createConfig, patchConfig, replaceConfig, setConfigVariable,
\* deleteConfigVariable, deleteConfig: kv.put or kv.delete under config:<id>
ConfigChanges(id, variables) ==
  /\ configs[id] # variables
  /\ configs' = [configs EXCEPT ![id] = variables]
  /\ UNCHANGED <<main, executions, nodeExecutions, objState, tasks, outcome,
                 response, events, created, parser, factory, journal>>

NextConfig ==
  \/ Next
  \/ \E id \in ConfigIds, variables \in ConfigMappings \cup {Absent} :
       ConfigChanges(id, variables)
SpecConfig == InitConfig /\ [][NextConfig]_vars


\* the top-level execution a (sub-)execution descends from
RECURSIVE RootOf(_)
RootOf(e) ==
  IF executions[e].invoker = 0 THEN e
  ELSE RootOf(nodeExecutions[executions[e].invoker].executionId)
\* the mapping stored on the top-level record when it was created
SnapshotOf(e) == executions[RootOf(e)].config
\* every record, every activation's workflowConfig and every node input built
\* so far carry the snapshot of their top-level execution
SnapshotEverywhere ==
  /\ \A e \in DOMAIN executions : executions[e].config = SnapshotOf(e)
  /\ \A t \in TaskIds : \A i \in DOMAIN tasks[t] :
       LET f == tasks[t][i]
       IN /\ f.workflowConfig = SnapshotOf(f.exec)
          /\ f.ne # 0 => f.input.config = SnapshotOf(f.exec)
\* a record's config is what the KV held under the resolved id when the record
\* was created, and is never rewritten
SnapshotFixed ==
  /\ \A e \in DOMAIN executions :
       /\ e \in DOMAIN executions'
       /\ executions'[e].config = executions[e].config
  /\ \A e \in DOMAIN executions' \ DOMAIN executions :
       executions'[e].invoker = 0 =>
         /\ executions'[e].config =
              getConfigVariables(configs, executions'[e].configId)
         /\ executions'[e].configId = NoConfigId =>
              main.defaultConfigId = NoConfigId

\* C28: the config mapping of every node input (which the setState rules and
\* the sub-execution read) and of every activation (which the dynamic edges
\* read), in an execution and in the sub-executions below it, is the mapping
\* resolved when the top-level record was created (request configId, else
\* defaultConfigId, else empty); config changes during the traversal do not
\* alter it.
C28_ConfigSnapshot == []SnapshotEverywhere /\ [][SnapshotFixed]_vars

\* a node of a sub-execution has its input built from the snapshot after the
\* config it was taken from has been changed
C28_Witness ==
  \E t \in TaskIds : \E i \in DOMAIN tasks[t] :
    LET f == tasks[t][i]
    IN /\ executions[f.exec].invoker # 0
       /\ f.ne # 0
       /\ f.input.config = "{k: 1}"
       /\ executions[RootOf(f.exec)].configId = "c1"
       /\ configs["c1"] = "{k: 2}"
\* the snapshot came from the workflow's default config, since deleted
C28_WitnessDefault ==
  \E e \in DOMAIN executions :
    /\ executions[e].invoker # 0
    /\ executions[RootOf(e)].configId = "c2"
    /\ executions[e].config = "{k: 2}"
    /\ configs["c2"] = Absent
    /\ executions[e].status = "completed"


\* ---------------------------------------------------------------------------
\* The execution journal: BaseRepository (durable) and BaseStatelessRepository
\* ---------------------------------------------------------------------------
\* bound: how many records are created
MaxRecords == 2
\* an id no create call has generated
NeverCreatedId == 0
RecordIds == 0..MaxRecords
\* findById finds nothing (null from the durable one, undefined from the other)
NoRecord == [missing |-> TRUE]
\* what the core passes to create
NewEntities ==
  { [status |-> s, result |-> 0, error |-> "", completedAt |-> 0] :
      s \in {"pending", "running"} }
\* what the core passes to update, and an update that names one field
Updates ==
  { [status |-> "completed", result |-> 1, completedAt |-> 1],
    [status |-> "failed", error |-> "boom", completedAt |-> 1],
    [result |-> 1] }
\* the statuses the core passes to updateStatus
Statuses == {"running"}

\* {...a, ...b}: the fields of b over those of a
Spread(a, b) ==
  [k \in DOMAIN a \cup DOMAIN b |-> IF k \in DOMAIN b THEN b[k] ELSE a[k]]
\* a store with the record under id set
Put(store, id, record) ==
  [x \in DOMAIN store \cup {id} |-> IF x = id THEN record ELSE store[x]]
findById(store, id) == IF id \in DOMAIN store THEN store[id] ELSE NoRecord

\* BaseRepository.create: insert {id: generateId(), createdAt: new Date(), ...entity}
DurableCreate(store, id, now, entity) ==
  Put(store, id, Spread([id |-> id, createdAt |-> now], entity))
\* BaseRepository.update: UPDATE ... SET data WHERE id = id
DurableUpdate(store, id, data) ==
  IF id \in DOMAIN store THEN Put(store, id, Spread(store[id], data)) ELSE store
\* ExecutionRepository.updateStatus: UPDATE executions SET status WHERE id = id
DurableUpdateStatus(store, id, status) ==
  DurableUpdate(store, id, [status |-> status])

\* BaseStatelessRepository.create: context.set(key, {...entity, id, createdAt})
StatelessCreate(store, id, now, entity) ==
  Put(store, id, Spread(entity, [id |-> id, createdAt |-> now]))
\* BaseStatelessRepository.update: context.set(key, {...context.get(key), ...update})
StatelessUpdate(store, id, update) ==
  Put(store, id, Spread(IF id \in DOMAIN store THEN store[id] ELSE <<>>, update))
\* ExecutionStatelessRepository.updateStatus: update(id, {...findById(id), status})
StatelessUpdateStatus(store, id, status) ==
  StatelessUpdate(store, id,
    Spread(IF id \in DOMAIN store THEN store[id] ELSE <<>>, [status |-> status]))

\* both repositories, empty, about to receive the same calls
InitJournal ==
  /\ main = NoWorkflow
  /\ executions = <<>>
  /\ nodeExecutions = <<>>
  /\ objState = <<>>
  /\ tasks = [t \in TaskIds |-> <<>>]
  /\ outcome = [t \in TaskIds |-> NoOutcome]
  /\ response = [t \in TaskIds |-> NoResponse]
  /\ events = <<>>
  /\ created = NoCreate
  /\ parser = NoParse
  /\ factory = NoFactory
  /\ configs = NoConfigs
  /\ journal = [op |-> "none", id |-> 0, data |-> <<>>, count |-> 0,
                durable |-> <<>>, stateless |-> <<>>]

JournalOnly ==
  UNCHANGED <<main, executions, nodeExecutions, objState, tasks, outcome,
              response, events, created, parser, factory, configs>>

\* create(entity) on both: the next id, the next instant
RepoCreate(entity) ==
  LET id == journal.count + 1
  IN /\ journal.count < MaxRecords
     /\ journal' = [op |-> "create", id |-> id, data |-> entity, count |-> id,
                    durable |-> DurableCreate(journal.durable, id, id, entity),
                    stateless |-> StatelessCreate(journal.stateless, id, id, entity)]
     /\ JournalOnly
\* update(id, data) on both, for an id created before or never
RepoUpdate(id, data) ==
  /\ id <= journal.count
  /\ journal' = [journal EXCEPT
       !.op = "update", !.id = id, !.data = data,
       !.durable = DurableUpdate(journal.durable, id, data),
       !.stateless = StatelessUpdate(journal.stateless, id, data)]
  /\ JournalOnly
\* updateStatus(id, status) on both
RepoUpdateStatus(id, status) ==
  /\ id <= journal.count
  /\ journal' = [journal EXCEPT
       !.op = "updateStatus", !.id = id, !.data = [status |-> status],
       !.durable = DurableUpdateStatus(journal.durable, id, status),
       !.stateless = StatelessUpdateStatus(journal.stateless, id, status)]
  /\ JournalOnly

NextJournal ==
  \/ \E entity \in NewEntities : RepoCreate(entity)
  \/ \E id \in RecordIds, data \in Updates : RepoUpdate(id, data)
  \/ \E id \in RecordIds, status \in Statuses : RepoUpdateStatus(id, status)
SpecJournal == InitJournal /\ [][NextJournal]_vars

\* one update or updateStatus call on a store, as findById shows it: the
\* addressed record keeps id and createdAt and takes the named fields, the
\* other ids are untouched, and a never-created id stays without a record
UpdateContract(before, after, id, data) ==
  /\ \A x \in RecordIds \ {id} : findById(after, x) = findById(before, x)
  /\ IF id \in DOMAIN before
       THEN /\ id \in DOMAIN after
            /\ DOMAIN after[id] = DOMAIN before[id]
            /\ \A k \in DOMAIN after[id] :
                 after[id][k] = IF k \in DOMAIN data \ {"id", "createdAt"}
                                THEN data[k] ELSE before[id][k]
       ELSE findById(after, id) = NoRecord

\* C29: the stateless journal behaves as the durable one: findById agrees on
\* every id after any sequence of create, update and updateStatus, and each
\* update or updateStatus keeps id and createdAt, sets the fields it names,
\* leaves other ids alone and creates no record for a never-created id.
C29_StatelessAsDurable ==
  [][/\ \A x \in RecordIds :
          findById(journal'.stateless, x) = findById(journal'.durable, x)
     /\ journal'.op \in {"update", "updateStatus"} =>
          /\ UpdateContract(journal.durable, journal'.durable,
                            journal'.id, journal'.data)
          /\ UpdateContract(journal.stateless, journal'.stateless,
                            journal'.id, journal'.data)]_vars

\* the durable journal alone keeps the contract
DurableKeepsContract ==
  [][journal'.op \in {"update", "updateStatus"} =>
       UpdateContract(journal.durable, journal'.durable,
                      journal'.id, journal'.data)]_vars
\* on the ids that were created the two journals agree
AgreeOnCreated ==
  \A x \in 1..journal.count :
    findById(journal.stateless, x) = findById(journal.durable, x)


\* ---------------------------------------------------------------------------
\* Streaming: the invoking node and the sub-workflow's last event
\* ---------------------------------------------------------------------------
\* the sub-workflow run as execution e has sent its final event before the
\* i-th event
FinalEventBefore(e, i) ==
  \E j \in 1..(i - 1) :
    /\ events[j].exec = e
    /\ events[j].visit = 0
    /\ events[j].type \in {"workflow_complete", "error"}
\* the i-th event shows the parent going on after node-execution v: that
\* node's node_complete, or the node_start of a later node of the parent
ResumesAfter(i, v) ==
  /\ events[i].exec = nodeExecutions[v].executionId
  /\ \/ events[i].type = "node_complete" /\ events[i].visit = v
     \/ events[i].type = "node_start" /\ events[i].visit > v

\* C30: when streaming, the parent emits the node_complete of a
\* workflow_executor node, or starts its next node, only after the
\* sub-workflow that node invoked has sent workflow_complete or error.
C30_ParentAfterFinalEvent ==
  \A e \in DOMAIN executions :
    executions[e].invoker # 0 =>
      \A i \in DOMAIN events :
        ResumesAfter(i, executions[e].invoker) => FinalEventBefore(e, i)

====
